---------------------------- MODULE Spec2Model ----------------------------
(***************************************************************************)
(* Model of the Hashing Concepts Lab (WanderingAstronomer/Hashing).        *)
(*                                                                         *)
(* Text is modelled at character level: a Python str is a sequence of      *)
(* one-character strings.  Characters that cannot be written in a TLA+     *)
(* string are named tokens, each standing for exactly one character:       *)
(* "ESC" is \033, "CR" is \r, "NL" is \n, and the box-drawing and bar      *)
(* glyphs are "BOX_H", "BOX_V", ... .                                      *)
(*                                                                         *)
(* stdout is the sequence of writes made so far; print(x) is one write of  *)
(* x followed by "NL".  An uncaught Python exception is recorded in        *)
(* `raised`.                                                               *)
(***************************************************************************)
EXTENDS Integers, Sequences, FiniteSets, TLC

VARIABLES
    pc,        \* position of the running function ("ready", "done", ...)
    stdout,    \* sequence of writes to sys.stdout
    raised,    \* "none", or the name of the exception that ended the call
    box,       \* frame of ui.draw_box: its arguments
    tbl,       \* frame of ui.draw_buckets: its arguments
    bar,       \* frame of ui.progress_bar: arguments, locals and the clock
    av,        \* frame of avalanche.run: its locals
    sa,        \* frame of ui.strip_ansi: its argument and result
    th,        \* frame of ui.toy_hash: its arguments and result
    col,       \* frame of collisions.run: its locals
    hb,        \* frame of avalanche._hex_to_bin: its argument and result
    rb,        \* frame of rainbow.run: its locals
    RAINBOW_TABLE,   \* rainbow.py's module-level dict, hash -> plaintext
    toy        \* frame of toy_hash.run: its locals

vars == <<pc, stdout, raised, box, tbl, bar, av, sa, th, col, hb, rb, RAINBOW_TABLE, toy>>

\* An optional argument is None (omitted) or Some(v).
None == <<>>
Some(v) == <<v>>
Idle == [idle |-> TRUE]

\* {}: the dict with no key
EmptyTable == [h \in {} |-> <<>>]

(***************************************************************************)
(* Bounds of the model.                                                    *)
(***************************************************************************)
MaxBoxLines == 2      \* draw_box is called with at most this many lines
MaxBoxWidth == 6      \* explicit widths passed to draw_box are 0..MaxBoxWidth

(***************************************************************************)
(* Python built-ins.                                                       *)
(***************************************************************************)
\* s * n for a one-character string s: the empty string when n <= 0.
StrMul(c, n) == IF n <= 0 THEN <<>> ELSE [i \in 1..n |-> c]

RECURSIVE Concat(_)
\* "".join(parts), joined by halves to keep the evaluation shallow
Concat(parts) ==
    IF parts = <<>> THEN <<>>
    ELSE IF Len(parts) = 1 THEN parts[1]
    ELSE LET h == Len(parts) \div 2
         IN  Concat(SubSeq(parts, 1, h)) \o Concat(SubSeq(parts, h + 1, Len(parts)))

SetMax(S) == CHOOSE m \in S : \A x \in S : x <= m
Minimum(a, b) == IF a <= b THEN a ELSE b
Maximum(a, b) == IF a >= b THEN a ELSE b
Abs(n) == IF n < 0 THEN -n ELSE n

\* print(text): one write of the text and the line end.
Println(text) == text \o <<"NL">>

(***************************************************************************)
(* ui.py: ANSI colour codes and box-drawing characters.                    *)
(***************************************************************************)
ESC == "ESC"
C_PURPLE == <<ESC, "[", "9", "5", "m">>
C_BLUE   == <<ESC, "[", "9", "4", "m">>
C_CYAN   == <<ESC, "[", "9", "6", "m">>
C_GREEN  == <<ESC, "[", "9", "2", "m">>
C_YELLOW == <<ESC, "[", "9", "3", "m">>
C_RED    == <<ESC, "[", "9", "1", "m">>
C_BOLD   == <<ESC, "[", "1", "m">>
C_DIM    == <<ESC, "[", "2", "m">>
C_RESET  == <<ESC, "[", "0", "m">>

BOX_H  == "BOX_H"
BOX_V  == "BOX_V"
BOX_TL == "BOX_TL"
BOX_TR == "BOX_TR"
BOX_BL == "BOX_BL"
BOX_BR == "BOX_BR"
BOX_LT == "BOX_LT"
BOX_RT == "BOX_RT"

Indent4 == <<" ", " ", " ", " ">>

(***************************************************************************)
(* ui.strip_ansi: re.sub(r"\033\[[0-9;]*m", "", text).                     *)
(* The scan is left to right; at each position the pattern matches iff     *)
(* the text there is ESC, "[", a maximal run of digits and ";", then "m"   *)
(* ("m" is not in the class, so the greedy run never has to back off).     *)
(***************************************************************************)
\* Leaves ";" out of the class: the pattern is \033\[[0-9]*m.
IsDigitChar(c) == c \in {"0", "1", "2", "3", "4", "5", "6", "7", "8", "9"}

IsParamChar(c) == c \in {"0", "1", "2", "3", "4", "5", "6", "7", "8", "9", ";"}

RECURSIVE SkipParams(_, _)
\* first index >= i of text that holds no parameter character
SkipParams(text, i) ==
    IF i <= Len(text) /\ IsParamChar(text[i]) THEN SkipParams(text, i + 1) ELSE i

\* index of the closing "m" of a match starting at i, or 0 when none starts there
MatchEnd(text, i) ==
    IF text[i] = ESC /\ i + 1 <= Len(text) /\ text[i + 1] = "["
    THEN LET j == SkipParams(text, i + 2)
         IN  IF j <= Len(text) /\ text[j] = "m" THEN j ELSE 0
    ELSE 0

\* 1, 2, ..., n
Indices(n) == [k \in 1..n |-> k]

\* A match holds no ESC after its first character, so no match start lies
\* inside an earlier match: the matches are exactly the places where the
\* pattern fits, and the result is the text without the characters they cover.
strip_ansi(text) ==
    LET covered == UNION { i..MatchEnd(text, i) :
                             i \in {j \in DOMAIN text : MatchEnd(text, j) > 0} }
        kept == SelectSeq(Indices(Len(text)), LAMBDA k : k \notin covered)
    IN  [n \in DOMAIN kept |-> text[kept[n]]]

(***************************************************************************)
(* ui.draw_box(content_lines, width=None, color=C_CYAN).                   *)
(* The result is what the call writes and the exception it ends with.      *)
(***************************************************************************)
\* Cuts the line to the box width.
BoxRowTruncating(line, width, color) ==
    Println(Indent4 \o color \o <<BOX_V>> \o C_RESET
            \o SubSeq(line, 1, Minimum(Len(line), width))
            \o StrMul(" ", width - Len(strip_ansi(line)))
            \o color \o <<BOX_V>> \o C_RESET)

\* Pads by the raw length, colour codes counted.
BoxRowRawLen(line, width, color) ==
    Println(Indent4 \o color \o <<BOX_V>> \o C_RESET \o line
            \o StrMul(" ", width - Len(line)) \o color \o <<BOX_V>> \o C_RESET)

BoxRow(line, width, color) ==
    LET visible_len == Len(strip_ansi(line))
        padding == width - visible_len
    IN  Println(Indent4 \o color \o <<BOX_V>> \o C_RESET \o line
                \o StrMul(" ", padding) \o color \o <<BOX_V>> \o C_RESET)

BoxTop(width, color) ==
    Println(Indent4 \o color \o <<BOX_TL>> \o StrMul(BOX_H, width)
            \o <<BOX_TR>> \o C_RESET)

BoxBottom(width, color) ==
    Println(Indent4 \o color \o <<BOX_BL>> \o StrMul(BOX_H, width)
            \o <<BOX_BR>> \o C_RESET)

\* Lines 186-187: the width given, or the widest visible line plus 2.
BoxWidth(content_lines, width) ==
    IF width = None
    THEN SetMax({Len(strip_ansi(content_lines[k])) : k \in DOMAIN content_lines}) + 2
    ELSE width[1]

\* max() of an empty sequence raises ValueError before anything is printed.
draw_box(content_lines, width, color) ==
    IF width = None /\ content_lines = <<>>
    THEN [out |-> <<>>, raised |-> "ValueError"]
    ELSE LET w == BoxWidth(content_lines, width)
         IN  [out |-> <<BoxTop(w, color)>>
                      \o [k \in DOMAIN content_lines |->
                             BoxRow(content_lines[k], w, color)]
                      \o <<BoxBottom(w, color)>>,
              raised |-> "none"]

(***************************************************************************)
(* Callers of draw_box: the lines handed to it.  Each is "already          *)
(* formatted": plain text, text wrapped in colour codes, the empty line,   *)
(* and a line holding an ESC that starts no colour code.                   *)
(***************************************************************************)
BoxLineSet ==
    { <<>>,
      <<"x">>,
      <<"F", "A", "S", "T">>,
      C_RED \o <<"a", "b">> \o C_RESET,
      <<" ">> \o C_BOLD \o C_GREEN \o <<"o", "k">> \o C_RESET \o <<" ">>,
      <<ESC, "[", "x">> }

RECURSIVE SeqsUpTo(_, _)
\* all sequences of at most n elements of S
SeqsUpTo(S, n) ==
    IF n = 0 THEN { <<>> }
    ELSE LET shorter == SeqsUpTo(S, n - 1)
         IN  shorter \cup { Append(s, x) : s \in shorter, x \in S }

BoxColors == {C_CYAN, C_RED}

IdleFrames(keep) ==
    /\ "box" \in keep \/ box = Idle
    /\ "tbl" \in keep \/ tbl = Idle
    /\ "bar" \in keep \/ bar = Idle
    /\ "av"  \in keep \/ av = Idle
    /\ "sa"  \in keep \/ sa = Idle
    /\ "th"  \in keep \/ th = Idle
    /\ "col" \in keep \/ col = Idle
    /\ "hb"  \in keep \/ hb = Idle
    /\ "rb"  \in keep \/ (rb = Idle /\ RAINBOW_TABLE = EmptyTable)
    /\ "toy" \in keep \/ toy = Idle

InitBox ==
    /\ pc = "ready"
    /\ stdout = <<>>
    /\ raised = "none"
    /\ box = [content_lines |-> <<>>, width |-> None, color |-> C_CYAN]
    /\ IdleFrames({"box"})

\* A caller invokes draw_box; the call runs to its end.
DrawBox ==
    /\ pc = "ready"
    /\ \E lines \in SeqsUpTo(BoxLineSet, MaxBoxLines),
          w \in {None} \cup {Some(n) : n \in 0..MaxBoxWidth},
          color \in BoxColors :
          LET r == draw_box(lines, w, color)
          IN  /\ box' = [content_lines |-> lines, width |-> w, color |-> color]
              /\ stdout' = r.out
              /\ raised' = r.raised
    /\ pc' = "done"
    /\ UNCHANGED <<tbl, bar, av, sa, th, col, hb, rb, RAINBOW_TABLE, toy>>

\* The caller goes on to its next call with a fresh screen.
BoxReturn ==
    /\ pc = "done"
    /\ pc' = "ready"
    /\ stdout' = <<>>
    /\ raised' = "none"
    /\ box' = [content_lines |-> <<>>, width |-> None, color |-> C_CYAN]
    /\ UNCHANGED <<tbl, bar, av, sa, th, col, hb, rb, RAINBOW_TABLE, toy>>

NextBox == DrawBox \/ BoxReturn

SpecBox == InitBox /\ [][NextBox]_vars

(***************************************************************************)
(* ui.draw_buckets(buckets, highlight_idx=None).                           *)
(***************************************************************************)
idx_w == 5          \* width of the index column
content_w == 44     \* width of the content column

Digit(d) == <<"0", "1", "2", "3", "4", "5", "6", "7", "8", "9">>[d + 1]

RECURSIVE IntStr(_)
\* str(n) for n >= 0
IntStr(n) == IF n < 10 THEN <<Digit(n)>> ELSE IntStr(n \div 10) \o <<Digit(n % 10)>>

\* format(text, "^w"): centred, the odd space going to the right
Center(text, w) ==
    LET fill == w - Len(text)
    IN  StrMul(" ", fill \div 2) \o text \o StrMul(" ", fill - fill \div 2)

RECURSIVE Join(_, _)
\* sep.join(items)
Join(sep, items) ==
    IF items = <<>> THEN <<>>
    ELSE IF Len(items) = 1 THEN items[1]
    ELSE items[1] \o sep \o Join(sep, Tail(items))

\* Lines 222-227, with row indices counted from 0 as in the source.
\* Red only when the highlighted bucket holds more than one word.
IndexColorByCount(buckets, i, highlight_idx) ==
    IF Some(i) = highlight_idx /\ Len(buckets[i + 1]) > 1 THEN C_RED
    ELSE IF Some(i) = highlight_idx THEN C_GREEN
    ELSE C_CYAN

IndexColor(buckets, i, highlight_idx) ==
    IF Some(i) = highlight_idx /\ buckets[i + 1] # <<>> THEN C_RED
    ELSE IF Some(i) = highlight_idx THEN C_GREEN
    ELSE C_CYAN

\* Lines 232-240.
\* Pads without reserving the column of the leading space.
ContentCellNoLead(items) ==
    LET items_str == IF items # <<>> THEN Join(<<",", " ">>, items)
                     ELSE C_DIM \o <<"e", "m", "p", "t", "y">> \o C_RESET
        visible_len == Len(strip_ansi(items_str))
        pad == content_w - visible_len
    IN  <<" ">> \o items_str \o StrMul(" ", Maximum(pad, 0))

ContentCell(items) ==
    LET items_str == IF items # <<>> THEN Join(<<",", " ">>, items)
                     ELSE C_DIM \o <<"e", "m", "p", "t", "y">> \o C_RESET
        visible_len == Len(strip_ansi(items_str))
        pad == content_w - visible_len - 1
    IN  <<" ">> \o items_str \o StrMul(" ", Maximum(pad, 0))

BucketRow(buckets, i, highlight_idx) ==
    LET idx_str == IndexColor(buckets, i, highlight_idx) \o C_BOLD
                   \o Center(IntStr(i), idx_w) \o C_RESET
    IN  Println(Indent4 \o C_CYAN \o <<BOX_V>> \o C_RESET \o idx_str
                \o C_CYAN \o <<BOX_V>> \o C_RESET \o ContentCell(buckets[i + 1])
                \o C_CYAN \o <<BOX_V>> \o C_RESET)

\* A horizontal rule: top border, row separator or bottom border.
BucketRule(left, mid, right) ==
    Println(Indent4 \o C_CYAN \o <<left>> \o StrMul(BOX_H, idx_w) \o <<mid>>
            \o StrMul(BOX_H, content_w) \o <<right>> \o C_RESET)

RECURSIVE BucketRowsSeparated(_, _, _)
\* Puts a separator after every row, the last one too.
BucketRowsSeparated(buckets, i, highlight_idx) ==
    IF i >= Len(buckets) THEN <<>>
    ELSE <<BucketRow(buckets, i, highlight_idx),
           BucketRule(BOX_LT, "BOX_X", BOX_RT)>>
         \o BucketRowsSeparated(buckets, i + 1, highlight_idx)

RECURSIVE BucketRowsFrom(_, _, _)
\* Lines 220-246: rows i .. num-1, a separator after each but the last.
BucketRowsFrom(buckets, i, highlight_idx) ==
    IF i >= Len(buckets) THEN <<>>
    ELSE <<BucketRow(buckets, i, highlight_idx)>>
         \o (IF i < Len(buckets) - 1
             THEN <<BucketRule(BOX_LT, "BOX_X", BOX_RT)>> ELSE <<>>)
         \o BucketRowsFrom(buckets, i + 1, highlight_idx)

draw_buckets(buckets, highlight_idx) ==
    <<BucketRule(BOX_TL, "BOX_TT", BOX_TR)>>
    \o BucketRowsFrom(buckets, 0, highlight_idx)
    \o <<BucketRule(BOX_BL, "BOX_BT", BOX_BR)>>

(***************************************************************************)
(* Callers of draw_buckets: a short bucket list, each bucket one of a few  *)
(* word lists whose joined widths are 0, 3, 8, 43, 44 and 45.              *)
(***************************************************************************)
MaxRows == 2      \* draw_buckets is called with at most this many buckets

Cat == <<"C", "a", "t">>
Act == <<"A", "c", "t">>
LongWord(n) == StrMul("w", n)

BucketContentSet ==
    { <<>>,
      <<Cat>>,
      <<Cat, Act>>,
      <<LongWord(20), LongWord(21)>>,
      <<LongWord(21), LongWord(21)>>,
      <<LongWord(22), LongWord(21)>> }

InitBuckets ==
    /\ pc = "ready"
    /\ stdout = <<>>
    /\ raised = "none"
    /\ tbl = [buckets |-> <<>>, highlight_idx |-> None]
    /\ IdleFrames({"tbl"})

\* A lesson draws its buckets; the call runs to its end.
DrawBuckets ==
    /\ pc = "ready"
    /\ \E b \in SeqsUpTo(BucketContentSet, MaxRows) :
       \E h \in {None} \cup {Some(i) : i \in 0..(Len(b) - 1)} :
          /\ tbl' = [buckets |-> b, highlight_idx |-> h]
          /\ stdout' = draw_buckets(b, h)
    /\ pc' = "done"
    /\ UNCHANGED <<raised, box, bar, av, sa, th, col, hb, rb, RAINBOW_TABLE, toy>>

BucketsReturn ==
    /\ pc = "done"
    /\ pc' = "ready"
    /\ stdout' = <<>>
    /\ tbl' = [buckets |-> <<>>, highlight_idx |-> None]
    /\ UNCHANGED <<raised, box, bar, av, sa, th, col, hb, rb, RAINBOW_TABLE, toy>>

NextBuckets == DrawBuckets \/ BucketsReturn

SpecBuckets == InitBuckets /\ [][NextBuckets]_vars

(***************************************************************************)
(* ui.progress_bar(label_text, seconds, color=C_GREEN).                    *)
(* Time is counted in hundredths of a second.  time.time() is a clock that *)
(* never runs backwards; between two reads it advances by the time the     *)
(* code in between took (0..MaxJitter) plus any sleep.  Floats are taken   *)
(* as exact: elapsed / seconds is the rational number.                     *)
(***************************************************************************)
bar_width == 30     \* cells of the bar
poll == 5           \* time.sleep(0.05)
MaxSeconds == 12    \* durations passed are -2..MaxSeconds
MaxJitter == 1      \* extra clock advance per loop iteration
MaxClock == 30      \* the model stops following a call at this clock value

BAR_FULL == "BAR_FULL"
BAR_EMPTY == "BAR_EMPTY"

\* int(a / b) for b # 0: the quotient cut towards zero
TruncDiv(a, b) ==
    IF (a >= 0) = (b > 0) THEN Abs(a) \div Abs(b) ELSE -(Abs(a) \div Abs(b))

\* round(n / d) for n >= 0, d > 0, halves to the even neighbour
RoundHalfEven(n, d) ==
    LET q == n \div d
        r == n % d
    IN  IF 2 * r > d THEN q + 1
        ELSE IF 2 * r < d THEN q
        ELSE q + (q % 2)

\* text.rjust(w)
RJust(text, w) == StrMul(" ", w - Len(text)) \o text

\* Takes the bar as full only once elapsed has passed the duration.
FullStrict(elapsed, seconds) == seconds > 0 /\ elapsed > seconds

\* min(elapsed / seconds, 1.0) >= 1.0, for seconds # 0
Full(elapsed, seconds) == seconds > 0 /\ elapsed >= seconds

\* int(width * pct)
Filled(elapsed, seconds) ==
    IF Full(elapsed, seconds) THEN bar_width
    ELSE TruncDiv(bar_width * elapsed, seconds)

\* f"{pct * 100:3.0f}"; a negative duration gives a negative (or -0.0) pct
PctText(elapsed, seconds) ==
    IF Full(elapsed, seconds) THEN <<"1", "0", "0">>
    ELSE RJust((IF seconds < 0 THEN <<"-">> ELSE <<>>)
               \o IntStr(RoundHalfEven(100 * elapsed, Abs(seconds))), 3)

\* Lines 270-273: one redraw.
\* Ends the redraw with a line end.
RedrawWithNewline(label_text, elapsed, seconds, color) ==
    LET filled == Filled(elapsed, seconds)
    IN  <<"CR">> \o Indent4 \o color \o label_text \o <<" ", "[">>
        \o StrMul(BAR_FULL, filled) \o StrMul(BAR_EMPTY, bar_width - filled)
        \o <<"]", " ">> \o PctText(elapsed, seconds) \o <<"%">> \o C_RESET
        \o <<"NL">>

Redraw(label_text, elapsed, seconds, color) ==
    LET filled == Filled(elapsed, seconds)
    IN  <<"CR">> \o Indent4 \o color \o label_text \o <<" ", "[">>
        \o StrMul(BAR_FULL, filled) \o StrMul(BAR_EMPTY, bar_width - filled)
        \o <<"]", " ">> \o PctText(elapsed, seconds) \o <<"%">> \o C_RESET

Hashing == <<"H", "a", "s", "h", "i", "n", "g">>

BarIdle ==
    [label_text |-> <<>>, seconds |-> 1, color |-> C_GREEN,
     start |-> 0, clock |-> 0, elapsed |-> 0, sleeps |-> 0]

InitProgress ==
    /\ pc = "ready"
    /\ stdout = <<>>
    /\ raised = "none"
    /\ bar = BarIdle
    /\ IdleFrames({"bar"})

\* Lines 264-265: the call starts and reads the clock.
BarCall ==
    /\ pc = "ready"
    /\ \E secs \in (-2)..MaxSeconds :
          bar' = [label_text |-> Hashing, seconds |-> secs, color |-> C_GREEN,
                  start |-> bar.clock, clock |-> bar.clock,
                  elapsed |-> 0, sleeps |-> 0]
    /\ pc' = "loop"
    /\ UNCHANGED <<stdout, raised, box, tbl, av, sa, th, col, hb, rb, RAINBOW_TABLE, toy>>

\* Lines 267-268 with seconds = 0: the division raises.
BarDivideByZero ==
    /\ pc = "loop"
    /\ bar.seconds = 0
    /\ raised' = "ZeroDivisionError"
    /\ pc' = "raised"
    /\ UNCHANGED <<stdout, bar, box, tbl, av, sa, th, col, hb, rb, RAINBOW_TABLE, toy>>

\* Lines 267-277: one pass of the loop that ends in the sleep.
BarTick ==
    /\ pc = "loop"
    /\ bar.seconds # 0
    /\ bar.clock <= MaxClock
    /\ \E d \in 0..MaxJitter :
          LET t == bar.clock + d
              elapsed == t - bar.start
          IN  /\ ~Full(elapsed, bar.seconds)
              /\ stdout' = Append(stdout,
                                  Redraw(bar.label_text, elapsed, bar.seconds, bar.color))
              /\ bar' = [bar EXCEPT !.clock = t + poll, !.elapsed = elapsed,
                                    !.sleeps = @ + 1]
    /\ pc' = "loop"
    /\ UNCHANGED <<raised, box, tbl, av, sa, th, col, hb, rb, RAINBOW_TABLE, toy>>

\* Lines 267-278: the pass that reaches 100%, leaves the loop and ends the line.
BarFinish ==
    /\ pc = "loop"
    /\ bar.seconds # 0
    /\ bar.clock <= MaxClock
    /\ \E d \in 0..MaxJitter :
          LET t == bar.clock + d
              elapsed == t - bar.start
          IN  /\ Full(elapsed, bar.seconds)
              /\ stdout' = stdout
                           \o <<Redraw(bar.label_text, elapsed, bar.seconds, bar.color),
                                Println(<<>>)>>
              /\ bar' = [bar EXCEPT !.clock = t, !.elapsed = elapsed]
    /\ pc' = "done"
    /\ UNCHANGED <<raised, box, tbl, av, sa, th, col, hb, rb, RAINBOW_TABLE, toy>>

\* The caller goes on (or the exception ends the lesson) and a new call starts.
BarReturn ==
    /\ pc \in {"done", "raised"}
    /\ pc' = "ready"
    /\ stdout' = <<>>
    /\ raised' = "none"
    /\ bar' = BarIdle
    /\ UNCHANGED <<box, tbl, av, sa, th, col, hb, rb, RAINBOW_TABLE, toy>>

NextProgress == BarCall \/ BarDivideByZero \/ BarTick \/ BarFinish \/ BarReturn

SpecProgress == InitProgress /\ [][NextProgress]_vars

\* The interpreter keeps running the loop and time.sleep returns: a pass of
\* the loop that can be made is made.
SpecProgressFair ==
    /\ InitProgress
    /\ [][NextProgress]_vars
    /\ WF_vars(BarTick)
    /\ WF_vars(BarFinish)

(***************************************************************************)
(* avalanche.py: Demo 3, the Avalanche Effect.                             *)
(* stdout holds the three diff displays (lines 109-111, 146-148 and        *)
(* 193-195); the counts the narration reports are the frame's char_diffs,  *)
(* hex_diffs and bit_diffs_total.                                          *)
(***************************************************************************)
HEX_LEN == 64       \* hex characters of a SHA-256 digest
SHOW_BITS == 64     \* bits shown in the binary view
MaxStrLen == 2      \* typed strings have at most this many characters

DOT == "DOT"        \* the middle dot that marks a match
CARET == "^"        \* marks a mismatch

HexDigits == <<"0", "1", "2", "3", "4", "5", "6", "7",
               "8", "9", "a", "b", "c", "d", "e", "f">>

HexValue(c) == CHOOSE v \in 0..15 : HexDigits[v + 1] = c

\* the four binary digits of a hex digit's value, high bit first
NibbleBits(v) ==
    <<Digit((v \div 8) % 2), Digit((v \div 4) % 2), Digit((v \div 2) % 2), Digit(v % 2)>>

StripLeadingZeros(bits) ==
    LET ones == {k \in DOMAIN bits : bits[k] # "0"}
    IN  IF ones = {} THEN <<>>
        ELSE SubSeq(bits, CHOOSE k \in ones : \A j \in ones : k <= j, Len(bits))

\* bin(int(hex_str, 16))[2:]: the binary numeral of the number, which has no
\* leading zeros and is "0" for zero.
BinOfHex(hex_str) ==
    LET numeral == StripLeadingZeros(
                       Concat([k \in DOMAIN hex_str |-> NibbleBits(HexValue(hex_str[k]))]))
    IN  IF numeral = <<>> THEN <<"0">> ELSE numeral

\* text.zfill(w)
ZFill(text, w) == StrMul("0", w - Len(text)) \o text

\* text.ljust(w)
LJust(text, w) == text \o StrMul(" ", w - Len(text))

\* Drops the zfill: leading zero bits are lost.
HexToBinNoFill(hex_str) == BinOfHex(hex_str)

_hex_to_bin(hex_str) == ZFill(BinOfHex(hex_str), Len(hex_str) * 4)

\* zip(a, b): the index range both have
ZipRange(a, b) == 1..Minimum(Len(a), Len(b))

\* Skips the positions where the first text has a blank or a zero.
MismatchesOneSided(a, b) ==
    Cardinality({k \in ZipRange(a, b) : a[k] # b[k] /\ a[k] \notin {" ", "0"}})

\* sum(1 for x, y in zip(a, b) if x != y)
Mismatches(a, b) == Cardinality({k \in ZipRange(a, b) : a[k] # b[k]})

\* Lines 98-107: the marker line of the inputs.
\* Marks only the part both inputs have.
DiffMarkersOverlap(a, b) ==
    Concat([k \in ZipRange(a, b) |->
               IF a[k] = b[k] THEN C_DIM \o <<DOT>> \o C_RESET
               ELSE C_RED \o C_BOLD \o <<CARET>> \o C_RESET])

\* Puts the caret under the matches and the dot under the mismatches.
DiffMarkersInverted(a, b) ==
    LET max_len == Maximum(Len(a), Len(b))
        padded_a == LJust(a, max_len)
        padded_b == LJust(b, max_len)
    IN  Concat([k \in ZipRange(padded_a, padded_b) |->
                   IF padded_a[k] # padded_b[k] THEN C_DIM \o <<DOT>> \o C_RESET
                   ELSE C_RED \o C_BOLD \o <<CARET>> \o C_RESET])

DiffMarkers(a, b) ==
    LET max_len == Maximum(Len(a), Len(b))
        padded_a == LJust(a, max_len)
        padded_b == LJust(b, max_len)
    IN  Concat([k \in ZipRange(padded_a, padded_b) |->
                   IF padded_a[k] = padded_b[k] THEN C_DIM \o <<DOT>> \o C_RESET
                   ELSE C_RED \o C_BOLD \o <<CARET>> \o C_RESET])

\* Lines 113-114: the number of differing characters reported.
CharDiffs(a, b) ==
    LET max_len == Maximum(Len(a), Len(b))
        padded_a == LJust(a, max_len)
        padded_b == LJust(b, max_len)
    IN  Mismatches(padded_a, padded_b) + Abs(Len(a) - Len(b))

\* Lines 137-144.
\* Groups the markers by eight, as the binary view does.
HexDiffGrouped(a, b) ==
    Concat([k \in ZipRange(a, b) |->
               (IF a[k] = b[k] THEN C_DIM \o <<DOT>> \o C_RESET
                ELSE C_RED \o <<CARET>> \o C_RESET)
               \o (IF k % 8 = 0 /\ k < Len(a) THEN <<" ">> ELSE <<>>)])

HexDiff(a, b) ==
    Concat([k \in ZipRange(a, b) |->
               IF a[k] = b[k] THEN C_DIM \o <<DOT>> \o C_RESET
               ELSE C_RED \o <<CARET>> \o C_RESET])

\* Line 188: a space after every 8th bit, except after the last one shown.
\* Puts the space after the last bit too.
BitGapTrailing(i) == IF (i + 1) % 8 = 0 THEN <<" ">> ELSE <<>>

BitGap(i) == IF (i + 1) % 8 = 0 /\ i < SHOW_BITS - 1 THEN <<" ">> ELSE <<>>

\* Lines 177-191, i counted from 0 as in the source.
ColoredA(b_a, b_b) ==
    Concat([k \in 1..SHOW_BITS |->
               (IF b_a[k] = b_b[k] THEN C_DIM \o <<b_a[k]>> \o C_RESET
                ELSE C_CYAN \o C_BOLD \o <<b_a[k]>> \o C_RESET) \o BitGap(k - 1)])

\* Colours B's flipped bits like A's.
ColoredBAccent(b_a, b_b) ==
    Concat([k \in 1..SHOW_BITS |->
               (IF b_a[k] = b_b[k] THEN C_DIM \o <<b_b[k]>> \o C_RESET
                ELSE C_CYAN \o C_BOLD \o <<b_b[k]>> \o C_RESET) \o BitGap(k - 1)])

ColoredB(b_a, b_b) ==
    Concat([k \in 1..SHOW_BITS |->
               (IF b_a[k] = b_b[k] THEN C_DIM \o <<b_b[k]>> \o C_RESET
                ELSE C_RED \o C_BOLD \o <<b_b[k]>> \o C_RESET) \o BitGap(k - 1)])

BitDiffLine(b_a, b_b) ==
    Concat([k \in 1..SHOW_BITS |->
               (IF b_a[k] = b_b[k] THEN C_DIM \o <<DOT>> \o C_RESET
                ELSE C_RED \o <<CARET>> \o C_RESET) \o BitGap(k - 1)])

\* Line 171: counted over all bits of the digests.
\* Counts only the bits that are shown.
BitDiffsShown(b_a, b_b) ==
    Cardinality({k \in 1..SHOW_BITS : b_a[k] # b_b[k]})

BitDiffsTotal(b_a, b_b) == Mismatches(b_a, b_b)

(***************************************************************************)
(* The inputs of the lesson: what is typed at the two prompts, and the     *)
(* digests hashlib.sha256 returns.  SHA-256 is outside the repository: a   *)
(* digest is any of a few 64-digit hex strings, equal inputs having equal  *)
(* digests.  The family has the all-zero digest, digests with leading zero *)
(* digits, and two digests that agree on the bits shown and differ after.  *)
(***************************************************************************)
TypedChars == {"a", " "}
TypedStrings == SeqsUpTo(TypedChars, MaxStrLen)

default_a == <<"p", "a", "s", "s", "w", "o", "r", "d">>
default_b == <<"p", "a", "s", "s", "w", "o", "r", "e">>

\* x or default
OrDefault(text, default) == IF text = <<>> THEN default ELSE text

DigestOf(p) ==
    [k \in 1..HEX_LEN |->
        HexDigits[((IF k <= 16 THEN p[1] * k + p[2] ELSE p[3] * k + p[4]) % 16) + 1]]

DigestSet == { DigestOf(p) : p \in { <<0, 0, 0, 0>>, <<0, 0, 3, 5>>,
                                     <<7, 2, 3, 5>>, <<7, 2, 5, 1>> } }

AvStart ==
    [in_a |-> <<>>, in_b |-> <<>>, h_a |-> <<>>, h_b |-> <<>>,
     b_a |-> <<>>, b_b |-> <<>>, diff_markers |-> <<>>, char_diffs |-> 0,
     hex_diff |-> <<>>, hex_diffs |-> 0, bit_diffs_total |-> 0,
     colored_a |-> <<>>, colored_b |-> <<>>, bit_diff_line |-> <<>>]

InitAvalanche ==
    /\ pc = "prompt_a"
    /\ stdout = <<>>
    /\ raised = "none"
    /\ av = AvStart
    /\ IdleFrames({"av"})

\* Line 88: the first string is typed; Enter alone takes the default.
AvPromptA ==
    /\ pc = "prompt_a"
    /\ \E typed \in TypedStrings :
          av' = [av EXCEPT !.in_a = OrDefault(typed, default_a)]
    /\ pc' = "prompt_b"
    /\ UNCHANGED <<stdout, raised, box, tbl, bar, sa, th, col, hb, rb, RAINBOW_TABLE, toy>>

\* Lines 89-119: the second string is typed, both are hashed, and part 1
\* (the inputs and their marker line) is shown.
AvPromptB ==
    /\ pc = "prompt_b"
    /\ \E typed \in TypedStrings, da \in DigestSet, db \in DigestSet :
          LET in_b == OrDefault(typed, default_b)
              markers == DiffMarkers(av.in_a, in_b)
          IN  /\ av.in_a = in_b => da = db
              /\ av' = [av EXCEPT !.in_b = in_b,
                                  !.h_a = da, !.h_b = db,
                                  !.b_a = _hex_to_bin(da), !.b_b = _hex_to_bin(db),
                                  !.diff_markers = markers,
                                  !.char_diffs = CharDiffs(av.in_a, in_b)]
              /\ stdout' = stdout
                    \o <<Println(Indent4 \o <<"A", ":", " ", "\"">> \o C_BOLD
                                 \o av.in_a \o C_RESET \o <<"\"">>),
                         Println(Indent4 \o <<"B", ":", " ", "\"">> \o C_BOLD
                                 \o in_b \o C_RESET \o <<"\"">>),
                         Println(Indent4 \o <<" ", " ", " ">> \o markers)>>
    /\ pc' = "hex"
    /\ UNCHANGED <<raised, box, tbl, bar, sa, th, col, hb, rb, RAINBOW_TABLE, toy>>

\* Lines 121-158: part 2, the digests in hex and their marker line.
AvHex ==
    /\ pc = "hex"
    /\ LET hex_diff == HexDiff(av.h_a, av.h_b)
       IN  /\ av' = [av EXCEPT !.hex_diff = hex_diff,
                               !.hex_diffs = Mismatches(av.h_a, av.h_b)]
           /\ stdout' = stdout
                 \o <<Println(Indent4 \o <<"A", ":", " ">> \o C_CYAN \o av.h_a \o C_RESET),
                      Println(Indent4 \o <<"B", ":", " ">> \o C_CYAN \o av.h_b \o C_RESET),
                      Println(Indent4 \o <<" ", " ", " ">> \o hex_diff)>>
    /\ pc' = "bits"
    /\ UNCHANGED <<raised, box, tbl, bar, sa, th, col, hb, rb, RAINBOW_TABLE, toy>>

\* Lines 160-221: part 3, the first SHOW_BITS bits and the summary.
AvBits ==
    /\ pc = "bits"
    /\ LET colored_a == ColoredA(av.b_a, av.b_b)
           colored_b == ColoredB(av.b_a, av.b_b)
           bit_diff_line == BitDiffLine(av.b_a, av.b_b)
       IN  /\ av' = [av EXCEPT !.bit_diffs_total = BitDiffsTotal(av.b_a, av.b_b),
                               !.colored_a = colored_a,
                               !.colored_b = colored_b,
                               !.bit_diff_line = bit_diff_line]
           /\ stdout' = stdout
                 \o <<Println(Indent4 \o <<"A", ":", " ">> \o colored_a),
                      Println(Indent4 \o <<"B", ":", " ">> \o colored_b),
                      Println(Indent4 \o <<" ", " ", " ">> \o bit_diff_line)>>
    /\ pc' = "end"
    /\ UNCHANGED <<raised, box, tbl, bar, sa, th, col, hb, rb, RAINBOW_TABLE, toy>>

\* The lesson returns to the menu; it can be run again.
AvReturn ==
    /\ pc = "end"
    /\ pc' = "prompt_a"
    /\ stdout' = <<>>
    /\ av' = AvStart
    /\ UNCHANGED <<raised, box, tbl, bar, sa, th, col, hb, rb, RAINBOW_TABLE, toy>>

NextAvalanche == AvPromptA \/ AvPromptB \/ AvHex \/ AvBits \/ AvReturn

SpecAvalanche == InitAvalanche /\ [][NextAvalanche]_vars

(***************************************************************************)
(* Callers of strip_ansi.  The text handed over is built by an f-string    *)
(* from visible characters and colour codes: `segs` keeps the pieces, in   *)
(* order, each a single visible character or one whole colour code.  A     *)
(* caller that restyles a text puts one more colour code between two       *)
(* pieces and measures the text again.                                     *)
(***************************************************************************)
MaxVisible == 2     \* texts have at most this many visible characters
MaxMarkers == 2     \* at most this many colour codes are put into a text

\* visible characters, among them the ones a colour code is made of
VisibleChars == {"x", "m", "[", "1"}

\* colour codes: a constant of ui.py, the reset, and a combined bold-red
StyleMarkers == {C_RED, C_RESET, <<ESC, "[", "1", ";", "9", "1", "m">>}

\* seq with x put in after its first p elements
InsertAt(seq, p, x) == SubSeq(seq, 1, p) \o <<x>> \o SubSeq(seq, p + 1, Len(seq))

SaStart == [segs |-> <<>>, text |-> <<>>, result |-> <<>>, width_before |-> None]

InitStrip ==
    /\ pc = "ready"
    /\ stdout = <<>>
    /\ raised = "none"
    /\ sa = SaStart
    /\ IdleFrames({"sa"})

\* strip_ansi is called on a text without colour codes.
StripPlain ==
    /\ pc = "ready"
    /\ \E visible \in SeqsUpTo(VisibleChars, MaxVisible) :
          sa' = [segs |-> [k \in DOMAIN visible |-> <<visible[k]>>],
                 text |-> visible,
                 result |-> strip_ansi(visible),
                 width_before |-> None]
    /\ pc' = "done"
    /\ UNCHANGED <<stdout, raised, box, tbl, bar, av, th, col, hb, rb, RAINBOW_TABLE, toy>>

\* The caller puts one more colour code between two pieces of the text and
\* calls strip_ansi on the new text; width_before is the width found before.
StripRestyled ==
    /\ pc = "done"
    /\ Cardinality({k \in DOMAIN sa.segs : sa.segs[k] \in StyleMarkers}) < MaxMarkers
    /\ \E p \in 0..Len(sa.segs), marker \in StyleMarkers :
          LET segs == InsertAt(sa.segs, p, marker)
              text == Concat(segs)
          IN  sa' = [segs |-> segs,
                     text |-> text,
                     result |-> strip_ansi(text),
                     width_before |-> Some(Len(sa.result))]
    /\ pc' = "done"
    /\ UNCHANGED <<stdout, raised, box, tbl, bar, av, th, col, hb, rb, RAINBOW_TABLE, toy>>

StripReturn ==
    /\ pc = "done"
    /\ pc' = "ready"
    /\ sa' = SaStart
    /\ UNCHANGED <<stdout, raised, box, tbl, bar, av, th, col, hb, rb, RAINBOW_TABLE, toy>>

NextStrip == StripPlain \/ StripRestyled \/ StripReturn

SpecStrip == InitStrip /\ [][NextStrip]_vars

(***************************************************************************)
(* ui.toy_hash(text, num_buckets).                                         *)
(***************************************************************************)
\* the printable ASCII characters, from code 32 to code 126 (the backtick,
\* code 96, is written as a token)
Printable ==
    <<" ", "!", "\"", "#", "$", "%", "&", "'", "(", ")", "*", "+", ",", "-", ".", "/",
      "0", "1", "2", "3", "4", "5", "6", "7", "8", "9", ":", ";", "<", "=", ">", "?",
      "@", "A", "B", "C", "D", "E", "F", "G", "H", "I", "J", "K", "L", "M", "N", "O",
      "P", "Q", "R", "S", "T", "U", "V", "W", "X", "Y", "Z", "[", "\\", "]", "^", "_",
      "BACKTICK", "a", "b", "c", "d", "e", "f", "g", "h", "i", "j", "k", "l", "m", "n", "o",
      "p", "q", "r", "s", "t", "u", "v", "w", "x", "y", "z", "{", "|", "}", "~">>

\* ord(c)
Ord(c) == 31 + (CHOOSE i \in DOMAIN Printable : Printable[i] = c)

\* chr(n)
Chr(n) == Printable[n - 31]

\* c.lower() for one character
LowerChar(c) == IF Ord(c) >= 65 /\ Ord(c) <= 90 THEN Chr(Ord(c) + 32) ELSE c

\* text.lower()
Lower(text) == [k \in DOMAIN text |-> LowerChar(text[k])]

RECURSIVE SumOrd(_)
\* sum(ord(c) for c in text)
SumOrd(text) == IF text = <<>> THEN 0 ELSE Ord(Head(text)) + SumOrd(Tail(text))

RECURSIVE SumOrdWeighted(_, _)
SumOrdWeighted(text, k) ==
    IF text = <<>> THEN 0 ELSE k * Ord(Head(text)) + SumOrdWeighted(Tail(text), k + 1)

\* Weighs each character by its position in the text.
ToyHashPositional(text, num_buckets) == SumOrdWeighted(text, 1) % num_buckets

toy_hash(text, num_buckets) == SumOrd(text) % num_buckets

(***************************************************************************)
(* Callers of toy_hash: short words and a positive number of buckets (the  *)
(* lessons pass 5 and reduce modulo 8).                                    *)
(***************************************************************************)
MaxWordLen == 3     \* hashed texts have at most this many characters
MaxBuckets == 8     \* bucket counts passed are 1..MaxBuckets

WordChars == {"C", "a", "t", "q"}

ThStart == [text |-> <<>>, num_buckets |-> 1, result |-> 0]

InitHash ==
    /\ pc = "ready"
    /\ stdout = <<>>
    /\ raised = "none"
    /\ th = ThStart
    /\ IdleFrames({"th"})

HashCall ==
    /\ pc = "ready"
    /\ \E text \in SeqsUpTo(WordChars, MaxWordLen), n \in 1..MaxBuckets :
          th' = [text |-> text, num_buckets |-> n, result |-> toy_hash(text, n)]
    /\ pc' = "done"
    /\ UNCHANGED <<stdout, raised, box, tbl, bar, av, sa, col, hb, rb, RAINBOW_TABLE, toy>>

HashReturn ==
    /\ pc = "done"
    /\ pc' = "ready"
    /\ th' = ThStart
    /\ UNCHANGED <<stdout, raised, box, tbl, bar, av, sa, col, hb, rb, RAINBOW_TABLE, toy>>

NextHash == HashCall \/ HashReturn

SpecHash == InitHash /\ [][NextHash]_vars

(***************************************************************************)
(* collisions.py: Demo 2, the Collision Challenge.                         *)
(* stdout holds what is on the screen: header() clears it at the top of    *)
(* each round, then come the status line and the bucket table; the         *)
(* narration between them is left out.                                     *)
(***************************************************************************)
NUM_BUCKETS == 5

\* Line 87 takes a bucket holding a single earlier word for free.
CollidesWhenCrowded(buckets, idx) == Len(buckets[idx + 1]) > 1

\* Line 87: `if buckets[idx]`, the bucket already holds a word.
Collides(buckets, idx) == buckets[idx + 1] # <<>>

\* Line 75: what ends the challenge at the prompt.
\* Compares the word as typed, without lower().
IsQuitExact(word) == word = <<"q">> \/ word = <<>>

IsQuit(word) == Lower(word) = <<"q">> \/ word = <<>>

\* What is typed at the prompt: the three ways to quit, one word for each
\* bucket ("d", "e", "a", "b", "c" hash to 0, 1, 2, 3, 4), and two more
\* words for buckets 0 and 4, one of them a word with a q in it.
TypedWords ==
    { <<>>, <<"q">>, <<"Q">>,
      <<"a">>, <<"b">>, <<"c">>, <<"d">>, <<"e">>, <<"a", "b">>, <<"Q", "q">> }

\* Line 70.
StatusLine(attempts) ==
    Println(Println(Indent4 \o C_DIM \o <<"B", "u", "c", "k", "e", "t", "s", ":", " ">>
                    \o IntStr(NUM_BUCKETS) \o <<" ", " ", " ", BOX_V, " ", " ", " ">>
                    \o <<"W", "o", "r", "d", "s", " ", "e", "n", "t", "e", "r", "e", "d", ":", " ">>
                    \o IntStr(attempts) \o C_RESET))

ColStart ==
    [buckets |-> [k \in 1..NUM_BUCKETS |-> <<>>], attempts |-> 0, found |-> FALSE,
     word |-> <<>>, idx |-> None]

\* Lines 64-66: the challenge starts.
InitCollisions ==
    /\ pc = "loop"
    /\ stdout = <<>>
    /\ raised = "none"
    /\ col = ColStart
    /\ IdleFrames({"col"})

\* Lines 68-73: the loop goes on, the screen is cleared and the table drawn.
ColShow ==
    /\ pc = "loop"
    /\ ~col.found
    /\ stdout' = <<StatusLine(col.attempts)>> \o draw_buckets(col.buckets, None)
    /\ pc' = "prompt"
    /\ UNCHANGED <<raised, box, tbl, bar, av, sa, th, col, hb, rb, RAINBOW_TABLE, toy>>

\* Lines 74-76: "q", "Q" or Enter alone leaves the loop.
ColQuit ==
    /\ pc = "prompt"
    /\ \E word \in TypedWords :
          /\ IsQuit(word)
          /\ col' = [col EXCEPT !.word = word]
    /\ pc' = "returned"
    /\ UNCHANGED <<stdout, raised, box, tbl, bar, av, sa, th, hb, rb, RAINBOW_TABLE, toy>>

\* Lines 74-128: a word is entered, hashed and put into its bucket; when the
\* bucket already held a word the collision is recorded and the table drawn
\* with that row highlighted.
ColWord ==
    /\ pc = "prompt"
    /\ \E word \in TypedWords :
          LET idx == toy_hash(word, NUM_BUCKETS)
              hit == Collides(col.buckets, idx)
              buckets == [col.buckets EXCEPT ![idx + 1] = Append(@, word)]
          IN  /\ ~IsQuit(word)
              /\ col' = [buckets |-> buckets, attempts |-> col.attempts + 1,
                         found |-> hit, word |-> word, idx |-> Some(idx)]
              /\ stdout' = IF hit THEN stdout \o draw_buckets(buckets, Some(idx))
                           ELSE stdout
              /\ pc' = IF hit THEN "pause_end" ELSE "pause_again"
    /\ UNCHANGED <<raised, box, tbl, bar, av, sa, th, hb, rb, RAINBOW_TABLE, toy>>

\* Line 128: Enter at "try again"; the loop test of line 68 lets the loop go on.
ColAgain ==
    /\ pc = "pause_again"
    /\ pc' = "loop"
    /\ UNCHANGED <<stdout, raised, box, tbl, bar, av, sa, th, col, hb, rb, RAINBOW_TABLE, toy>>

\* Line 124: Enter at "return to menu"; found is set, so the loop ends.
ColEnd ==
    /\ pc = "pause_end"
    /\ col.found
    /\ pc' = "returned"
    /\ UNCHANGED <<stdout, raised, box, tbl, bar, av, sa, th, col, hb, rb, RAINBOW_TABLE, toy>>

\* Back in the menu, the challenge can be started again.
ColReturn ==
    /\ pc = "returned"
    /\ pc' = "loop"
    /\ stdout' = <<>>
    /\ col' = ColStart
    /\ UNCHANGED <<raised, box, tbl, bar, av, sa, th, hb, rb, RAINBOW_TABLE, toy>>

NextCollisions == ColShow \/ ColQuit \/ ColWord \/ ColAgain \/ ColEnd \/ ColReturn

SpecCollisions == InitCollisions /\ [][NextCollisions]_vars

(***************************************************************************)
(* Callers of _hex_to_bin: avalanche.run passes hexdigest() strings, which *)
(* are non-empty strings of lower-case hex digits.                         *)
(***************************************************************************)
MaxHexLen == 2      \* hex strings converted have 1..MaxHexLen digits

HexChars == {HexDigits[k] : k \in DOMAIN HexDigits}

HbStart == [hex_str |-> <<>>, result |-> <<>>]

InitHexBin ==
    /\ pc = "ready"
    /\ stdout = <<>>
    /\ raised = "none"
    /\ hb = HbStart
    /\ IdleFrames({"hb"})

HexBinCall ==
    /\ pc = "ready"
    /\ \E h \in SeqsUpTo(HexChars, MaxHexLen) \ {<<>>} :
          hb' = [hex_str |-> h, result |-> _hex_to_bin(h)]
    /\ pc' = "done"
    /\ UNCHANGED <<stdout, raised, box, tbl, bar, av, sa, th, col, rb, RAINBOW_TABLE, toy>>

HexBinReturn ==
    /\ pc = "done"
    /\ pc' = "ready"
    /\ hb' = HbStart
    /\ UNCHANGED <<stdout, raised, box, tbl, bar, av, sa, th, col, rb, RAINBOW_TABLE, toy>>

NextHexBin == HexBinCall \/ HexBinReturn

SpecHexBin == InitHexBin /\ [][NextHexBin]_vars

(***************************************************************************)
(* rainbow.py: Demo 5, the Rainbow Table Attack.                           *)
(* RAINBOW_TABLE is a module-level dict: it is empty when the program      *)
(* starts and lives until the program ends.  SHA-256 is outside the        *)
(* repository: the digests of the texts that are hashed here are written   *)
(* out in Sha256Digests.  stdout holds the outcome of the lookup;          *)
(* the table display, the narration and the salted part (which read the    *)
(* table no more) are left out.                                            *)
(***************************************************************************)
MaxRuns == 2        \* the lesson is run at most this many times per program run

COMMON_PASSWORDS ==
    <<<<"1", "2", "3", "4", "5", "6">>, <<"p", "a", "s", "s", "w", "o", "r", "d">>,
      <<"1", "2", "3", "4", "5", "6", "7", "8">>, <<"q", "w", "e", "r", "t", "y">>,
      <<"a", "b", "c", "1", "2", "3">>, <<"m", "o", "n", "k", "e", "y">>,
      <<"l", "e", "t", "m", "e", "i", "n">>, <<"d", "r", "a", "g", "o", "n">>,
      <<"1", "1", "1", "1", "1", "1">>, <<"b", "a", "s", "e", "b", "a", "l", "l">>,
      <<"i", "l", "o", "v", "e", "y", "o", "u">>, <<"t", "r", "u", "s", "t", "n", "o", "1">>,
      <<"s", "u", "n", "s", "h", "i", "n", "e">>, <<"m", "a", "s", "t", "e", "r">>,
      <<"w", "e", "l", "c", "o", "m", "e">>, <<"s", "h", "a", "d", "o", "w">>,
      <<"a", "s", "h", "l", "e", "y">>, <<"f", "o", "o", "t", "b", "a", "l", "l">>,
      <<"j", "e", "s", "u", "s">>, <<"m", "i", "c", "h", "a", "e", "l">>,
      <<"n", "i", "n", "j", "a">>, <<"m", "u", "s", "t", "a", "n", "g">>,
      <<"p", "a", "s", "s", "w", "o", "r", "d", "1">>, <<"h", "u", "n", "t", "e", "r", "2">>,
      <<"b", "a", "t", "m", "a", "n">>>>

\* The texts that are not in the list, among those typed at the prompt.
OTHER_PASSWORDS ==
    <<<<"z", "e", "b", "r", "a">>,
      <<"D", "r", "a", "g", "o", "n">>,
      <<"d", "r", "a", "g", "o", "n", " ">>,
      <<"p", "a", "s", "s", "w", "o", "r">>,
      <<"x">>>>

\* The texts that get hashed: the common passwords, then the others.
Sha256Inputs == COMMON_PASSWORDS \o OTHER_PASSWORDS

\* The SHA-256 digest, in hex, of each text of Sha256Inputs, in that order.
Sha256Digests ==
    <<
      <<"8", "d", "9", "6", "9", "e", "e", "f", "6", "e", "c", "a", "d", "3", "c", "2",
        "9", "a", "3", "a", "6", "2", "9", "2", "8", "0", "e", "6", "8", "6", "c", "f",
        "0", "c", "3", "f", "5", "d", "5", "a", "8", "6", "a", "f", "f", "3", "c", "a",
        "1", "2", "0", "2", "0", "c", "9", "2", "3", "a", "d", "c", "6", "c", "9", "2">>,
      <<"5", "e", "8", "8", "4", "8", "9", "8", "d", "a", "2", "8", "0", "4", "7", "1",
        "5", "1", "d", "0", "e", "5", "6", "f", "8", "d", "c", "6", "2", "9", "2", "7",
        "7", "3", "6", "0", "3", "d", "0", "d", "6", "a", "a", "b", "b", "d", "d", "6",
        "2", "a", "1", "1", "e", "f", "7", "2", "1", "d", "1", "5", "4", "2", "d", "8">>,
      <<"e", "f", "7", "9", "7", "c", "8", "1", "1", "8", "f", "0", "2", "d", "f", "b",
        "6", "4", "9", "6", "0", "7", "d", "d", "5", "d", "3", "f", "8", "c", "7", "6",
        "2", "3", "0", "4", "8", "c", "9", "c", "0", "6", "3", "d", "5", "3", "2", "c",
        "c", "9", "5", "c", "5", "e", "d", "7", "a", "8", "9", "8", "a", "6", "4", "f">>,
      <<"6", "5", "e", "8", "4", "b", "e", "3", "3", "5", "3", "2", "f", "b", "7", "8",
        "4", "c", "4", "8", "1", "2", "9", "6", "7", "5", "f", "9", "e", "f", "f", "3",
        "a", "6", "8", "2", "b", "2", "7", "1", "6", "8", "c", "0", "e", "a", "7", "4",
        "4", "b", "2", "c", "f", "5", "8", "e", "e", "0", "2", "3", "3", "7", "c", "5">>,
      <<"6", "c", "a", "1", "3", "d", "5", "2", "c", "a", "7", "0", "c", "8", "8", "3",
        "e", "0", "f", "0", "b", "b", "1", "0", "1", "e", "4", "2", "5", "a", "8", "9",
        "e", "8", "6", "2", "4", "d", "e", "5", "1", "d", "b", "2", "d", "2", "3", "9",
        "2", "5", "9", "3", "a", "f", "6", "a", "8", "4", "1", "1", "8", "0", "9", "0">>,
      <<"0", "0", "0", "c", "2", "8", "5", "4", "5", "7", "f", "c", "9", "7", "1", "f",
        "8", "6", "2", "a", "7", "9", "b", "7", "8", "6", "4", "7", "6", "c", "7", "8",
        "8", "1", "2", "c", "8", "8", "9", "7", "0", "6", "3", "c", "6", "f", "a", "9",
        "c", "0", "4", "5", "f", "5", "7", "9", "a", "3", "b", "2", "d", "6", "3", "f">>,
      <<"1", "c", "8", "b", "f", "e", "8", "f", "8", "0", "1", "d", "7", "9", "7", "4",
        "5", "c", "4", "6", "3", "1", "d", "0", "9", "f", "f", "f", "3", "6", "c", "8",
        "2", "a", "a", "3", "7", "f", "c", "4", "c", "c", "e", "4", "f", "c", "9", "4",
        "6", "6", "8", "3", "d", "7", "b", "3", "3", "6", "b", "6", "3", "0", "3", "2">>,
      <<"a", "9", "c", "4", "3", "b", "e", "9", "4", "8", "c", "5", "c", "a", "b", "d",
        "5", "6", "e", "f", "2", "b", "a", "c", "f", "f", "b", "7", "7", "c", "d", "a",
        "a", "5", "e", "e", "c", "4", "9", "d", "d", "5", "e", "b", "0", "c", "c", "4",
        "1", "2", "9", "c", "f", "3", "e", "d", "a", "5", "f", "0", "e", "7", "4", "c">>,
      <<"b", "c", "b", "1", "5", "f", "8", "2", "1", "4", "7", "9", "b", "4", "d", "5",
        "7", "7", "2", "b", "d", "0", "c", "a", "8", "6", "6", "c", "0", "0", "a", "d",
        "5", "f", "9", "2", "6", "e", "3", "5", "8", "0", "7", "2", "0", "6", "5", "9",
        "c", "c", "8", "0", "d", "3", "9", "c", "9", "d", "0", "9", "8", "0", "2", "a">>,
      <<"a", "0", "1", "e", "d", "a", "d", "9", "1", "c", "0", "0", "a", "b", "e", "7",
        "b", "e", "5", "b", "7", "2", "b", "5", "e", "3", "6", "b", "f", "4", "c", "e",
        "3", "c", "6", "f", "2", "6", "e", "8", "b", "c", "e", "3", "3", "4", "0", "e",
        "b", "a", "3", "6", "5", "6", "4", "2", "8", "1", "3", "a", "b", "8", "b", "6">>,
      <<"e", "4", "a", "d", "9", "3", "c", "a", "0", "7", "a", "c", "b", "8", "d", "9",
        "0", "8", "a", "3", "a", "a", "4", "1", "e", "9", "2", "0", "e", "a", "4", "f",
        "4", "e", "f", "4", "f", "2", "6", "e", "7", "f", "8", "6", "c", "f", "8", "2",
        "9", "1", "c", "5", "d", "b", "2", "8", "9", "7", "8", "0", "a", "5", "a", "e">>,
      <<"2", "0", "3", "b", "7", "0", "b", "5", "a", "e", "8", "8", "3", "9", "3", "2",
        "1", "6", "1", "b", "b", "d", "0", "b", "d", "e", "d", "9", "3", "5", "7", "e",
        "7", "6", "3", "e", "6", "3", "a", "f", "c", "e", "9", "8", "b", "1", "6", "2",
        "3", "0", "b", "e", "3", "3", "f", "0", "b", "9", "4", "c", "2", "c", "c", "5">>,
      <<"a", "9", "4", "1", "a", "4", "c", "4", "f", "d", "0", "c", "0", "1", "c", "d",
        "d", "e", "f", "6", "1", "b", "8", "b", "e", "9", "6", "3", "b", "f", "4", "c",
        "1", "e", "2", "b", "0", "8", "1", "1", "c", "0", "3", "7", "c", "e", "3", "f",
        "1", "8", "3", "5", "f", "d", "d", "f", "6", "e", "f", "6", "c", "2", "2", "3">>,
      <<"f", "c", "6", "1", "3", "b", "4", "d", "f", "d", "6", "7", "3", "6", "a", "7",
        "b", "d", "2", "6", "8", "c", "8", "a", "0", "e", "7", "4", "e", "d", "0", "d",
        "1", "c", "0", "4", "a", "9", "5", "9", "f", "5", "9", "d", "d", "7", "4", "e",
        "f", "2", "8", "7", "4", "9", "8", "3", "f", "d", "4", "4", "3", "f", "c", "9">>,
      <<"2", "8", "0", "d", "4", "4", "a", "b", "1", "e", "9", "f", "7", "9", "b", "5",
        "c", "c", "e", "2", "d", "d", "4", "f", "5", "8", "f", "5", "f", "e", "9", "1",
        "f", "0", "f", "b", "a", "c", "d", "a", "c", "9", "f", "7", "4", "4", "7", "d",
        "f", "f", "c", "3", "1", "8", "c", "e", "b", "7", "9", "f", "2", "d", "0", "2">>,
      <<"0", "b", "b", "0", "9", "d", "8", "0", "6", "0", "0", "e", "e", "c", "3", "e",
        "b", "9", "d", "7", "7", "9", "3", "a", "6", "f", "8", "5", "9", "b", "e", "d",
        "d", "e", "2", "a", "2", "d", "8", "3", "8", "9", "9", "b", "7", "0", "b", "d",
        "7", "8", "e", "9", "6", "1", "e", "d", "6", "7", "4", "b", "3", "2", "f", "4">>,
      <<"c", "6", "4", "9", "7", "5", "b", "a", "3", "c", "f", "3", "f", "9", "c", "d",
        "5", "8", "4", "5", "9", "7", "1", "0", "b", "0", "a", "4", "2", "3", "6", "9",
        "f", "3", "4", "b", "0", "7", "5", "9", "c", "9", "9", "6", "7", "f", "b", "5",
        "a", "4", "7", "e", "e", "a", "4", "8", "8", "e", "8", "b", "e", "a", "7", "9">>,
      <<"6", "3", "8", "2", "d", "e", "a", "f", "1", "f", "5", "d", "c", "6", "e", "7",
        "9", "2", "b", "7", "6", "d", "b", "4", "a", "4", "a", "7", "b", "f", "2", "b",
        "a", "4", "6", "8", "8", "8", "4", "e", "0", "0", "0", "b", "2", "5", "e", "7",
        "9", "2", "8", "e", "6", "2", "1", "e", "2", "7", "f", "b", "2", "3", "c", "b">>,
      <<"a", "5", "4", "e", "7", "1", "f", "0", "e", "1", "7", "f", "5", "a", "a", "f",
        "7", "9", "4", "6", "e", "6", "6", "a", "b", "4", "2", "c", "f", "3", "b", "1",
        "f", "d", "4", "e", "6", "1", "d", "6", "0", "5", "8", "1", "7", "3", "6", "c",
        "9", "f", "0", "e", "b", "1", "c", "3", "f", "7", "9", "4", "e", "b", "7", "c">>,
      <<"3", "4", "5", "5", "0", "7", "1", "5", "0", "6", "2", "a", "f", "0", "0", "6",
        "a", "c", "4", "f", "a", "b", "2", "8", "8", "d", "e", "6", "7", "e", "c", "b",
        "4", "4", "7", "9", "3", "c", "3", "a", "0", "5", "c", "4", "7", "5", "2", "2",
        "7", "2", "4", "1", "5", "3", "5", "f", "6", "e", "f", "7", "a", "8", "1", "b">>,
      <<"5", "4", "4", "8", "2", "5", "9", "5", "1", "7", "7", "1", "1", "6", "e", "6",
        "1", "0", "3", "b", "0", "7", "6", "d", "b", "f", "3", "0", "6", "4", "8", "e",
        "5", "d", "0", "5", "3", "7", "d", "d", "1", "e", "d", "9", "c", "f", "5", "a",
        "e", "4", "5", "6", "2", "f", "a", "8", "a", "7", "0", "0", "d", "4", "7", "b">>,
      <<"a", "9", "2", "f", "6", "b", "d", "b", "7", "5", "7", "8", "9", "b", "c", "c",
        "c", "1", "1", "8", "a", "d", "f", "c", "f", "7", "0", "4", "0", "2", "9", "a",
        "a", "5", "8", "0", "6", "3", "c", "6", "0", "4", "b", "a", "b", "4", "f", "c",
        "d", "d", "9", "c", "d", "1", "2", "6", "e", "f", "9", "b", "6", "9", "a", "f">>,
      <<"0", "b", "1", "4", "d", "5", "0", "1", "a", "5", "9", "4", "4", "4", "2", "a",
        "0", "1", "c", "6", "8", "5", "9", "5", "4", "1", "b", "c", "b", "3", "e", "8",
        "1", "6", "4", "d", "1", "8", "3", "d", "3", "2", "9", "3", "7", "b", "8", "5",
        "1", "8", "3", "5", "4", "4", "2", "f", "6", "9", "d", "5", "c", "9", "4", "e">>,
      <<"f", "5", "2", "f", "b", "d", "3", "2", "b", "2", "b", "3", "b", "8", "6", "f",
        "f", "8", "8", "e", "f", "6", "c", "4", "9", "0", "6", "2", "8", "2", "8", "5",
        "f", "4", "8", "2", "a", "f", "1", "5", "d", "d", "c", "b", "2", "9", "5", "4",
        "1", "f", "9", "4", "b", "c", "f", "5", "2", "6", "a", "3", "f", "6", "c", "7">>,
      <<"1", "5", "3", "2", "e", "7", "6", "d", "b", "e", "9", "d", "4", "3", "d", "0",
        "d", "e", "a", "9", "8", "c", "3", "3", "1", "c", "a", "5", "a", "e", "8", "a",
        "6", "5", "c", "5", "e", "8", "e", "8", "b", "9", "9", "d", "3", "e", "2", "a",
        "4", "2", "a", "e", "9", "8", "9", "3", "5", "6", "f", "6", "2", "4", "2", "a">>,
      <<"6", "7", "6", "c", "b", "7", "5", "0", "1", "8", "e", "d", "c", "c", "f", "1",
        "0", "f", "c", "e", "6", "f", "3", "7", "6", "f", "2", "1", "2", "4", "e", "0",
        "2", "c", "3", "2", "9", "3", "f", "a", "3", "f", "e", "8", "f", "9", "5", "3",
        "c", "7", "5", "3", "8", "6", "1", "9", "8", "c", "7", "1", "4", "5", "1", "4">>,
      <<"b", "b", "e", "9", "6", "3", "c", "6", "4", "5", "f", "0", "6", "0", "d", "6",
        "1", "8", "5", "7", "b", "4", "1", "6", "b", "3", "9", "e", "c", "5", "d", "c",
        "f", "6", "3", "f", "6", "5", "9", "a", "9", "6", "0", "b", "b", "2", "d", "c",
        "1", "6", "4", "b", "7", "f", "a", "a", "d", "2", "8", "9", "7", "7", "8", "3">>,
      <<"4", "7", "5", "b", "5", "f", "5", "4", "d", "8", "2", "6", "5", "f", "5", "0",
        "f", "c", "0", "c", "f", "1", "c", "b", "f", "7", "f", "7", "e", "3", "5", "e",
        "3", "4", "a", "5", "f", "4", "a", "b", "8", "d", "a", "2", "2", "b", "4", "4",
        "7", "4", "7", "5", "7", "7", "d", "b", "9", "9", "c", "f", "e", "f", "f", "0">>,
      <<"2", "a", "2", "f", "8", "2", "2", "a", "d", "5", "3", "1", "9", "1", "1", "7",
        "d", "b", "5", "0", "1", "6", "9", "5", "5", "c", "0", "d", "8", "9", "d", "9",
        "8", "a", "5", "9", "e", "5", "0", "8", "6", "6", "7", "8", "9", "c", "f", "8",
        "8", "8", "3", "f", "c", "6", "a", "b", "d", "d", "2", "a", "1", "e", "1", "7">>,
      <<"2", "d", "7", "1", "1", "6", "4", "2", "b", "7", "2", "6", "b", "0", "4", "4",
        "0", "1", "6", "2", "7", "c", "a", "9", "f", "b", "a", "c", "3", "2", "f", "5",
        "c", "8", "5", "3", "0", "f", "b", "1", "9", "0", "3", "c", "c", "4", "d", "b",
        "0", "2", "2", "5", "8", "7", "1", "7", "9", "2", "1", "a", "4", "8", "8", "1">>
    >>

\* hashlib.sha256(text.encode()).hexdigest()
Sha256(text) ==
    Sha256Digests[CHOOSE k \in DOMAIN Sha256Inputs : Sha256Inputs[k] = text]

\* Stores the password as the key and the hash as the value.
TablePutSwapped(table, h, pw) ==
    [x \in DOMAIN table \cup {pw} |-> IF x = pw THEN h ELSE table[x]]

\* RAINBOW_TABLE[h] = pw
TablePut(table, h, pw) ==
    [x \in DOMAIN table \cup {h} |-> IF x = h THEN pw ELSE table[x]]

\* RAINBOW_TABLE.get(h)
TableGet(table, h) == IF h \in DOMAIN table THEN Some(table[h]) ELSE None

dragon == <<"d", "r", "a", "g", "o", "n">>

\* What is typed as the victim password: Enter alone, each of the common
\* passwords, and a few texts that are not in the list.
VictimInputs ==
    {<<>>} \cup {Sha256Inputs[k] : k \in DOMAIN Sha256Inputs}

Cracked == <<"C", "R", "A", "C", "K", "E", "D", "!">>
NotFound == <<"N", "o", "t", " ", "f", "o", "u", "n", "d">>

RbStart == [runs |-> 0, i |-> 0, victim_pw |-> <<>>, victim_hash |-> <<>>,
            result |-> None]

\* The program has started: the module is imported, the table is empty.
InitRainbow ==
    /\ pc = "menu"
    /\ stdout = <<>>
    /\ raised = "none"
    /\ rb = RbStart
    /\ RAINBOW_TABLE = EmptyTable
    /\ IdleFrames({"rb"})

\* Line 82: the lesson is chosen from the menu and calls _build_rainbow_table.
RbRun ==
    /\ pc = "menu"
    /\ rb.runs < MaxRuns
    /\ rb' = [RbStart EXCEPT !.runs = rb.runs + 1]
    /\ stdout' = <<>>
    /\ pc' = "build"
    /\ UNCHANGED <<raised, box, tbl, bar, av, sa, th, col, hb, RAINBOW_TABLE, toy>>

\* Lines 76-78: one pass of the loop over COMMON_PASSWORDS.
RbBuildStep ==
    /\ pc = "build"
    /\ rb.i < Len(COMMON_PASSWORDS)
    /\ LET pw == COMMON_PASSWORDS[rb.i + 1]
           h == Sha256(pw)
       IN  RAINBOW_TABLE' = TablePut(RAINBOW_TABLE, h, pw)
    /\ rb' = [rb EXCEPT !.i = @ + 1]
    /\ pc' = "build"
    /\ UNCHANGED <<stdout, raised, box, tbl, bar, av, sa, th, col, hb, toy>>

\* The loop is over: _build_rainbow_table returns; lines 84-127 show the
\* table and lead to the prompt for the victim password.
RbBuilt ==
    /\ pc = "build"
    /\ rb.i = Len(COMMON_PASSWORDS)
    /\ pc' = "attack"
    /\ UNCHANGED <<stdout, raised, box, tbl, bar, av, sa, th, col, hb, rb, RAINBOW_TABLE, toy>>

\* Lines 132-151: the victim password is typed (Enter alone takes "dragon"),
\* hashed and looked up.
RbAttack ==
    /\ pc = "attack"
    /\ \E typed \in VictimInputs :
          LET victim_pw == OrDefault(typed, dragon)
              victim_hash == Sha256(victim_pw)
              result == TableGet(RAINBOW_TABLE, victim_hash)
          IN  /\ rb' = [rb EXCEPT !.victim_pw = victim_pw,
                                  !.victim_hash = victim_hash,
                                  !.result = result]
              /\ stdout' =
                    IF result # None /\ result[1] # <<>>
                    THEN <<Println(<<"NL", "NL">> \o Indent4 \o C_RED \o C_BOLD
                                   \o Cracked \o C_RESET),
                           Println(Indent4 \o C_RED \o C_BOLD \o result[1] \o C_RESET)>>
                    ELSE <<Println(<<"NL", "NL">> \o Indent4 \o C_GREEN
                                   \o NotFound \o C_RESET)>>
    /\ pc' = "defense"
    /\ UNCHANGED <<raised, box, tbl, bar, av, sa, th, col, hb, RAINBOW_TABLE, toy>>

\* Lines 153-229: the salted part and the takeaway; run returns to the menu.
RbDefense ==
    /\ pc = "defense"
    /\ pc' = "menu"
    /\ UNCHANGED <<stdout, raised, box, tbl, bar, av, sa, th, col, hb, rb, RAINBOW_TABLE, toy>>

\* The program is left and started again: the module is imported afresh.
RbRestart ==
    /\ pc = "menu"
    /\ rb.runs > 0
    /\ pc' = "menu"
    /\ rb' = RbStart
    /\ stdout' = <<>>
    /\ RAINBOW_TABLE' = EmptyTable
    /\ UNCHANGED <<raised, box, tbl, bar, av, sa, th, col, hb, toy>>

NextRainbow == RbRun \/ RbBuildStep \/ RbBuilt \/ RbAttack \/ RbDefense \/ RbRestart

SpecRainbow == InitRainbow /\ [][NextRainbow]_vars

(***************************************************************************)
(* toy_hash.py: Demo 1, Toy Hash Mapping.                                  *)
(* stdout holds the bucket table drawn at the top of each round and the    *)
(* heading of the result (lines 107 and 124); the rest of the narration is *)
(* left out.                                                               *)
(***************************************************************************)
TOY_NUM_BUCKETS == 8    \* NUM_BUCKETS of toy_hash.py
MaxWords == 3           \* at most this many words are entered in a lesson

\* ui.label(text)
Label(text) == Println(<<"NL", " ", " ">> \o C_BOLD \o text \o C_RESET)

ResultHeading == <<"R", "e", "s", "u", "l", "t">>
CollisionHeading ==
    ResultHeading \o <<" ", "DASH", " ", "C", "o", "l", "l", "i", "s", "i", "o", "n", "!">>

\* What is typed at the prompt: the three ways to quit; "Cat" and its
\* anagram "Act" (both in bucket 0); "a" and "i" (both in bucket 1).
ToyTypedWords ==
    { <<>>, <<"q">>, <<"Q">>, Cat, Act, <<"a">>, <<"i">> }

\* Appends to the bucket after the one the word hashes to.
ToyPlaceNext(buckets, idx, word) ==
    [buckets EXCEPT ![((idx + 1) % TOY_NUM_BUCKETS) + 1] = Append(@, word)]

\* Line 127: buckets[idx].append(word)
ToyPlace(buckets, idx, word) == [buckets EXCEPT ![idx + 1] = Append(@, word)]

ToyStart ==
    [buckets |-> [k \in 1..TOY_NUM_BUCKETS |-> <<>>], word |-> <<>>,
     total |-> 0, idx |-> None, collision |-> FALSE, entered |-> 0]

\* Line 37 and the introduction: the lesson starts with empty buckets.
InitToy ==
    /\ pc = "loop"
    /\ stdout = <<>>
    /\ raised = "none"
    /\ toy = ToyStart
    /\ IdleFrames({"toy"})

\* Lines 67-71: the screen is cleared and the table drawn.
ToyShow ==
    /\ pc = "loop"
    /\ stdout' = draw_buckets(toy.buckets, None)
    /\ pc' = "prompt"
    /\ UNCHANGED <<raised, box, tbl, bar, av, sa, th, col, hb, rb, RAINBOW_TABLE, toy>>

\* Lines 72-74: "q", "Q" or Enter alone leaves the loop.
ToyQuit ==
    /\ pc = "prompt"
    /\ \E word \in ToyTypedWords :
          /\ IsQuit(word)
          /\ toy' = [toy EXCEPT !.word = word]
    /\ pc' = "returned"
    /\ UNCHANGED <<stdout, raised, box, tbl, bar, av, sa, th, col, hb, rb, RAINBOW_TABLE>>

\* Lines 72-128: a word is typed, its codes are summed, the sum is reduced
\* modulo NUM_BUCKETS, the result is announced and the word appended.
ToyWord ==
    /\ pc = "prompt"
    /\ toy.entered < MaxWords
    /\ \E word \in ToyTypedWords :
          LET total == SumOrd(word)
              idx == total % TOY_NUM_BUCKETS
              collision == Len(toy.buckets[idx + 1]) > 0
          IN  /\ ~IsQuit(word)
              /\ toy' = [buckets |-> ToyPlace(toy.buckets, idx, word),
                         word |-> word, total |-> total, idx |-> Some(idx),
                         collision |-> collision, entered |-> toy.entered + 1]
              /\ stdout' = Append(stdout,
                                  IF collision THEN Label(CollisionHeading)
                                  ELSE Label(ResultHeading))
    /\ pc' = "pause"
    /\ UNCHANGED <<raised, box, tbl, bar, av, sa, th, col, hb, rb, RAINBOW_TABLE>>

\* Line 128: Enter at "hash another word"; the loop goes round.
ToyAgain ==
    /\ pc = "pause"
    /\ pc' = "loop"
    /\ UNCHANGED <<stdout, raised, box, tbl, bar, av, sa, th, col, hb, rb, RAINBOW_TABLE, toy>>

\* Back in the menu, the lesson can be started again.
ToyReturn ==
    /\ pc = "returned"
    /\ pc' = "loop"
    /\ stdout' = <<>>
    /\ toy' = ToyStart
    /\ UNCHANGED <<raised, box, tbl, bar, av, sa, th, col, hb, rb, RAINBOW_TABLE>>

NextToy == ToyShow \/ ToyQuit \/ ToyWord \/ ToyAgain \/ ToyReturn

SpecToy == InitToy /\ [][NextToy]_vars

(***************************************************************************)
(* Reading the output back.                                                *)
(***************************************************************************)
CountOf(text, c) == Cardinality({i \in DOMAIN text : text[i] = c})

\* positions of character c in text, in increasing order
Positions(text, c) == SelectSeq(Indices(Len(text)), LAMBDA k : text[k] = c)

VisibleWidth(text) == Len(strip_ansi(text))

\* What a written row shows between its k-th and (k+1)-th vertical border.
Cell(row, k) ==
    LET shown == strip_ansi(row)
        at == Positions(shown, BOX_V)
    IN  SubSeq(shown, at[k] + 1, at[k + 1] - 1)

\* The raw characters of a draw_box row between its two border groups.
BoxRowPayload(row, color) ==
    SubSeq(row,
           Len(Indent4) + Len(color) + 1 + Len(C_RESET) + 1,
           Len(row) - (Len(color) + 1 + Len(C_RESET) + 1))

(***************************************************************************)
(* draw_box                                                                *)
(***************************************************************************)
BoxCalled == pc = "done" /\ box # Idle

\* C4: draw_box([]) with no width succeeds: resolved width 2, a top and a
\* bottom border and no content rows.
C4_EmptyBoxSucceeds ==
    (BoxCalled /\ box.content_lines = <<>> /\ box.width = None)
        => /\ raised = "none"
           /\ Len(stdout) = 2
           /\ CountOf(stdout[1], BOX_H) = 2
           /\ CountOf(stdout[2], BOX_H) = 2

\* the width the claims expect draw_box to settle on
ExpectedBoxWidth ==
    IF box.width = None
    THEN SetMax({VisibleWidth(box.content_lines[k]) : k \in DOMAIN box.content_lines}) + 2
    ELSE box.width[1]

\* C5: for a non-empty list of lines the width is the explicit one, else the
\* widest visible line plus 2; both borders have that many horizontal glyphs,
\* and when no line is wider, every content row shows exactly that many
\* columns between its vertical borders.
C5_BoxRowsFillWidth ==
    (BoxCalled /\ box.content_lines # <<>>)
        => /\ raised = "none"
           /\ Len(stdout) = Len(box.content_lines) + 2
           /\ CountOf(stdout[1], BOX_H) = ExpectedBoxWidth
           /\ CountOf(stdout[Len(stdout)], BOX_H) = ExpectedBoxWidth
           /\ (\A k \in DOMAIN box.content_lines :
                   VisibleWidth(box.content_lines[k]) <= ExpectedBoxWidth)
              => \A k \in DOMAIN box.content_lines :
                   Len(Cell(stdout[k + 1], 1)) = ExpectedBoxWidth

\* Two lines of different visible width, one of them coloured, auto-sized.
C5_Witness ==
    /\ BoxCalled /\ raised = "none"
    /\ box.width = None
    /\ Len(box.content_lines) = 2
    /\ \E k \in 1..2 : Len(box.content_lines[k]) > VisibleWidth(box.content_lines[k])
    /\ VisibleWidth(box.content_lines[1]) < VisibleWidth(box.content_lines[2])
    /\ Len(Cell(stdout[2], 1)) = VisibleWidth(box.content_lines[2]) + 2

\* C6: a line wider than the width passed is printed whole, with no padding
\* at all, between the borders, and nothing is raised.
C6_WideLineVerbatim ==
    BoxCalled
        => \A k \in DOMAIN box.content_lines :
             (box.width # None /\ VisibleWidth(box.content_lines[k]) > box.width[1])
                => /\ raised = "none"
                   /\ BoxRowPayload(stdout[k + 1], box.color) = box.content_lines[k]

\* A coloured line two columns wide in a box of width 1.
C6_Witness ==
    /\ BoxCalled /\ raised = "none"
    /\ box.width = Some(1)
    /\ \E k \in DOMAIN box.content_lines :
          /\ VisibleWidth(box.content_lines[k]) = 2
          /\ Len(box.content_lines[k]) > 2
          /\ BoxRowPayload(stdout[k + 1], box.color) = box.content_lines[k]

(***************************************************************************)
(* draw_buckets                                                            *)
(***************************************************************************)
BucketsCalled == pc = "done" /\ tbl # Idle

\* the written row of bucket i (0-based): rows and separators alternate
BucketRowOut(i) == stdout[2 * i + 2]

\* what the content cell of a bucket shows, before padding
ShownContent(items) ==
    IF items # <<>> THEN Join(<<",", " ">>, items) ELSE <<"e", "m", "p", "t", "y">>

\* column of the right border of a written line
RightBorderColumn(line, glyph) ==
    LET at == Positions(strip_ansi(line), glyph) IN at[Len(at)]

RowFits(i, limit) == Len(ShownContent(tbl.buckets[i + 1])) <= limit

RowAligned(i) ==
    /\ Len(Cell(BucketRowOut(i), 2)) = content_w
    /\ RightBorderColumn(BucketRowOut(i), BOX_V) = RightBorderColumn(stdout[1], BOX_TR)
    /\ RightBorderColumn(BucketRowOut(i), BOX_V)
         = RightBorderColumn(stdout[Len(stdout)], BOX_BR)

\* C7 as stated: every row whose content is at most content_w columns wide
\* fills exactly content_w columns and its right border is aligned with the
\* borders above and below, even when the content is exactly content_w wide.
C7_FittingRowsAligned ==
    BucketsCalled
        => \A i \in 0..(Len(tbl.buckets) - 1) : RowFits(i, content_w) => RowAligned(i)

\* C7 amended: the cell opens with a space, so rows whose content is at most
\* content_w - 1 columns wide are aligned; a content of exactly content_w
\* columns makes the cell one column wider than the borders.
C7_FittingRowsAlignedAmended ==
    BucketsCalled
        => \A i \in 0..(Len(tbl.buckets) - 1) :
             /\ RowFits(i, content_w - 1) => RowAligned(i)
             /\ Len(ShownContent(tbl.buckets[i + 1])) = content_w
                  => Len(Cell(BucketRowOut(i), 2)) = content_w + 1

\* An empty row, a row of exactly content_w - 1 columns, both aligned.
C7_Witness ==
    /\ BucketsCalled
    /\ Len(tbl.buckets) = 2
    /\ tbl.buckets[1] = <<>>
    /\ Len(ShownContent(tbl.buckets[2])) = content_w - 1
    /\ RowAligned(0) /\ RowAligned(1)
    /\ SubSeq(Cell(BucketRowOut(0), 2), 1, 6) = <<" ", "e", "m", "p", "t", "y">>

\* the colour code that opens the index cell of a written row
IndexColorOut(row) ==
    SubSeq(row, Len(Indent4) + Len(C_CYAN) + 1 + Len(C_RESET) + 1,
                Len(Indent4) + Len(C_CYAN) + 1 + Len(C_RESET) + Len(C_CYAN))

\* C8: a row that is not highlighted has the accent colour; the highlighted
\* row is green when its bucket holds only the word just placed and red when
\* the bucket already held another word.
C8_IndexColourByHighlight ==
    BucketsCalled
        => \A i \in 0..(Len(tbl.buckets) - 1) :
             IndexColorOut(BucketRowOut(i)) =
                IF Some(i) # tbl.highlight_idx THEN C_CYAN
                ELSE IF Len(tbl.buckets[i + 1]) = 1 THEN C_GREEN
                ELSE IF Len(tbl.buckets[i + 1]) > 1 THEN C_RED
                ELSE IndexColorOut(BucketRowOut(i))

(***************************************************************************)
(* progress_bar                                                            *)
(***************************************************************************)
BarCalled == pc \in {"loop", "done", "raised"} /\ bar.label_text # <<>>

\* the percentage a redraw shows: the three characters before "%"
ShownPct(write) ==
    LET at == Positions(write, "%")[1] IN SubSeq(write, at - 3, at - 1)

\* C3: with a duration that is zero or negative the call completes at once:
\* no exception, no sleep, and on return exactly one redraw, showing 100%,
\* followed by the line end.
C3_NonPositiveDurationCompletes ==
    (BarCalled /\ bar.seconds <= 0)
        => /\ raised = "none"
           /\ bar.sleeps = 0
           /\ pc = "done" => /\ Len(stdout) = 2
                             /\ ShownPct(stdout[1]) = <<"1", "0", "0">>
                             /\ stdout[2] = <<"NL">>

(***************************************************************************)
(* avalanche.run                                                           *)
(***************************************************************************)
\* part 1 has been shown / the whole lesson has been shown
AvPart1Shown == pc \in {"hex", "bits", "end"}
AvAllShown == pc = "end"

IsMarker(c) == c \in {DOT, CARET}

\* the glyphs of a written marker line, left to right
MarkerGlyphs(write) == SelectSeq(write, IsMarker)

\* what a written display line shows after its 7-column lead ("    A: ")
Shown(write) ==
    LET text == strip_ansi(write) IN SubSeq(text, 8, Len(text) - 1)

Overlap == Minimum(Len(av.in_a), Len(av.in_b))
Longer == IF Len(av.in_a) >= Len(av.in_b) THEN av.in_a ELSE av.in_b

\* C1: the number of differing characters reported is the number of
\* positions of the overlap where the inputs differ, plus the difference of
\* their lengths: each unmatched trailing character counts once.
C1_CharDiffCount ==
    AvPart1Shown
        => av.char_diffs =
              Cardinality({k \in 1..Overlap : av.in_a[k] # av.in_b[k]})
              + Abs(Len(av.in_a) - Len(av.in_b))

\* C2 as stated: the marker line of the inputs has exactly min(len(a),
\* len(b)) glyphs.
C2_MarkersStopAtShorter ==
    AvPart1Shown => Len(MarkerGlyphs(stdout[3])) = Overlap

\* C2 amended: the marker line has exactly max(len(a), len(b)) glyphs: the
\* shorter input is padded with spaces, so the line runs on under the longer
\* one, with a caret under each trailing character that is not a space.
C2_MarkersRunToLonger ==
    AvPart1Shown
        => LET glyphs == MarkerGlyphs(stdout[3])
           IN  /\ Len(glyphs) = Maximum(Len(av.in_a), Len(av.in_b))
               /\ \A k \in 1..Overlap :
                     (glyphs[k] = CARET) <=> (av.in_a[k] # av.in_b[k])
               /\ \A k \in (Overlap + 1)..Len(glyphs) :
                     (glyphs[k] = CARET) <=> (Longer[k] # " ")

\* Inputs of different lengths, the longer ending in a character that is
\* not a space: a caret stands past the end of the shorter one.
C2_Witness ==
    /\ AvPart1Shown
    /\ Len(av.in_a) < Len(av.in_b)
    /\ Len(MarkerGlyphs(stdout[3])) = Len(av.in_b)
    /\ MarkerGlyphs(stdout[3])[Len(av.in_b)] = CARET

\* C9: the number of flipped bits reported is the number of differing
\* positions over all the bits of the two digests (0 for equal ones),
\* whatever the number of bits shown; the marker line has one glyph per bit
\* shown, a caret exactly where the two bits differ.
C9_BitCountOverAllBits ==
    AvAllShown
        => LET glyphs == MarkerGlyphs(stdout[9])
           IN  /\ Len(av.b_a) = Len(av.b_b)
               /\ av.bit_diffs_total =
                     Cardinality({k \in 1..Len(av.b_a) : av.b_a[k] # av.b_b[k]})
               /\ av.b_a = av.b_b => av.bit_diffs_total = 0
               /\ Len(glyphs) = SHOW_BITS
               /\ \A k \in 1..SHOW_BITS :
                     (glyphs[k] = CARET) <=> (av.b_a[k] # av.b_b[k])

\* Two digests that agree on every bit shown and differ further on.
C9_Witness ==
    /\ AvAllShown
    /\ Len(av.b_a) > SHOW_BITS
    /\ SubSeq(av.b_a, 1, SHOW_BITS) = SubSeq(av.b_b, 1, SHOW_BITS)
    /\ av.bit_diffs_total > 0
    /\ \A k \in 1..SHOW_BITS : MarkerGlyphs(stdout[9])[k] = DOT

\* C10: in the binary view a single space follows every 8th position and
\* stands nowhere else, at the same places in line A, line B and the marker
\* line, and never after the last position: each line shows SHOW_BITS
\* symbols and SHOW_BITS / 8 - 1 separators.
C10_ByteGroups ==
    AvAllShown
        => \A n \in 7..9 :
             LET text == Shown(stdout[n])
             IN  /\ Len(text) = SHOW_BITS + (SHOW_BITS \div 8 - 1)
                 /\ \A k \in 1..Len(text) : (text[k] = " ") <=> (k % 9 = 0)
                 /\ CountOf(text, " ") = SHOW_BITS \div 8 - 1

\* A binary view whose marker line has both carets and dots.
C10_Witness ==
    /\ AvAllShown
    /\ CountOf(Shown(stdout[9]), CARET) > 0
    /\ CountOf(Shown(stdout[9]), DOT) > 0
    /\ CountOf(Shown(stdout[7]), " ") = 7
    /\ Len(Shown(stdout[7])) - CountOf(Shown(stdout[7]), " ") = 64

AvPart2Shown == pc \in {"bits", "end"}

\* C11: for inputs of equal length the mismatch counts do not depend on the
\* order of the two inputs: comparing b with a reports the same number of
\* differing characters, hex digits and bits as comparing a with b.
C11_CountsSymmetric ==
    (AvAllShown /\ Len(av.in_a) = Len(av.in_b))
        => /\ av.char_diffs = CharDiffs(av.in_b, av.in_a)
           /\ av.hex_diffs = Mismatches(av.h_b, av.h_a)
           /\ av.bit_diffs_total = BitDiffsTotal(av.b_b, av.b_a)

\* Inputs of equal length that differ at all three granularities, the
\* first one holding a blank where the second does not.
C11_Witness ==
    /\ AvAllShown
    /\ Len(av.in_a) = Len(av.in_b)
    /\ \E k \in DOMAIN av.in_a : av.in_a[k] = " " /\ av.in_b[k] # " "
    /\ av.char_diffs > 0 /\ av.hex_diffs > 0 /\ av.bit_diffs_total > 0
    /\ av.char_diffs = CharDiffs(av.in_b, av.in_a)

\* C12: for inputs of equal length the marker line has one glyph per
\* position, a caret exactly where the two characters differ and a dot
\* elsewhere, and the count reported is the number of carets; for
\* "password" against "passwore" that is 8 glyphs, a single caret in the
\* last place, and a count of 1.
C12_EqualLengthMarkers ==
    (AvPart1Shown /\ Len(av.in_a) = Len(av.in_b))
        => LET glyphs == Shown(stdout[3])
           IN  /\ Len(glyphs) = Len(av.in_a)
               /\ \A k \in 1..Len(glyphs) :
                     glyphs[k] = IF av.in_a[k] # av.in_b[k] THEN CARET ELSE DOT
               /\ av.char_diffs = CountOf(glyphs, CARET)
               /\ (av.in_a = default_a /\ av.in_b = default_b)
                    => /\ glyphs = StrMul(DOT, 7) \o <<CARET>>
                       /\ av.char_diffs = 1

\* Both defaults taken: "password" against "passwore".
C12_Witness ==
    /\ AvPart1Shown
    /\ av.in_a = default_a /\ av.in_b = default_b
    /\ Len(Shown(stdout[3])) = 8
    /\ Positions(Shown(stdout[3]), CARET) = <<8>>
    /\ av.char_diffs = 1

\* C13: the hex marker line has one glyph per digit of the digests and
\* nothing else (no grouping spaces), a caret exactly at the positions where
\* the digits differ and a dot elsewhere; the count reported is the number
\* of those positions; equal digests give the count 0 and dots only.
C13_HexMarkers ==
    AvPart2Shown
        => LET glyphs == Shown(stdout[6])
           IN  /\ Len(av.h_a) = HEX_LEN /\ Len(av.h_b) = HEX_LEN
               /\ Len(glyphs) = HEX_LEN
               /\ \A k \in 1..Len(glyphs) :
                     glyphs[k] = IF av.h_a[k] # av.h_b[k] THEN CARET ELSE DOT
               /\ av.hex_diffs = Cardinality({k \in 1..HEX_LEN : av.h_a[k] # av.h_b[k]})
               /\ av.hex_diffs = CountOf(glyphs, CARET)
               /\ av.h_a = av.h_b => av.hex_diffs = 0 /\ CountOf(glyphs, DOT) = HEX_LEN

\* Digests that agree on some digits and differ on others.
C13_Witness ==
    /\ AvPart2Shown
    /\ av.hex_diffs > 0 /\ av.hex_diffs < HEX_LEN
    /\ CountOf(Shown(stdout[6]), CARET) = av.hex_diffs
    /\ CountOf(Shown(stdout[6]), DOT) = HEX_LEN - av.hex_diffs

(***************************************************************************)
(* strip_ansi                                                              *)
(***************************************************************************)
StripCalled == pc = "done" /\ sa # Idle

\* the pieces of the text that are visible characters
VisiblePieces == SelectSeq(sa.segs, LAMBDA piece : piece \notin StyleMarkers)

\* C14: the visible width of a text, the length of what strip_ansi returns,
\* is the number of its visible characters and does not change when one more
\* colour code is put in between two of its pieces, however many it already
\* holds; the empty text has width 0.
C14_WidthIgnoresMarkers ==
    StripCalled
        => /\ sa.width_before # None => Len(sa.result) = sa.width_before[1]
           /\ Len(sa.result) = Len(VisiblePieces)
           /\ sa.text = <<>> => Len(sa.result) = 0

\* Two colour codes in a text of two visible characters, one of the codes
\* right before a visible "m" or "1".
C14_Witness ==
    /\ StripCalled
    /\ Len(sa.segs) = MaxVisible + 2
    /\ Len(VisiblePieces) = 2
    /\ \E k \in 1..(Len(sa.segs) - 1) :
          sa.segs[k] \in StyleMarkers /\ sa.segs[k + 1] \in {<<"m">>, <<"1">>}
    /\ sa.width_before = Some(2)
    /\ Len(sa.result) = 2
    /\ Len(sa.text) > 2

(***************************************************************************)
(* progress_bar, calls with a positive duration                            *)
(***************************************************************************)
\* the redraws written so far
Redraws == SelectSeq(stdout, LAMBDA write : write # <<"NL">>)

\* int(bar_width * min(elapsed / seconds, 1.0)) for seconds > 0
ExpectedCells(elapsed, seconds) == (bar_width * Minimum(elapsed, seconds)) \div seconds

C15_Running ==
    (BarCalled /\ bar.seconds > 0 /\ pc = "loop")
        => /\ Len(Redraws) = Len(stdout)
           /\ bar.sleeps = Len(Redraws)
           /\ bar.sleeps > 0
                => /\ bar.elapsed < bar.seconds
                   /\ CountOf(stdout[Len(stdout)], BAR_FULL)
                        = ExpectedCells(bar.elapsed, bar.seconds)

C15_Complete ==
    (BarCalled /\ bar.seconds > 0 /\ pc = "done")
        => /\ bar.elapsed >= bar.seconds
           /\ Len(Redraws) = Len(stdout) - 1
           /\ bar.sleeps = Len(Redraws) - 1
           /\ ShownPct(Redraws[Len(Redraws)]) = <<"1", "0", "0">>
           /\ CountOf(Redraws[Len(Redraws)], BAR_FULL) = bar_width
           /\ \A k \in 1..(Len(Redraws) - 1) : CountOf(Redraws[k], BAR_FULL) < bar_width

\* C15: a call with a positive duration starts out running; every redraw
\* shows the fraction min(elapsed / seconds, 1.0); the call sleeps once after
\* each redraw below 1.0 and never after another; it returns at the first
\* redraw whose fraction is 1.0, which is its last redraw and shows 100%;
\* and every such call does return.
C15_PositiveDurationCompletes ==
    /\ [](C15_Running /\ C15_Complete)
    /\ (pc = "loop" /\ bar.seconds > 0) ~> (pc = "done")

\* A call that slept at least twice and then returned at 100%.
C15_Witness ==
    /\ BarCalled /\ pc = "done"
    /\ bar.seconds > 0
    /\ bar.sleeps >= 2
    /\ ShownPct(stdout[Len(stdout) - 1]) = <<"1", "0", "0">>

\* C16: every redraw begins with a carriage return and holds no line end;
\* over the whole call exactly one line end is written, after the final
\* redraw, the one that shows 100%.
C16_OneNewlineAfterLastRedraw ==
    BarCalled
        => /\ \A k \in DOMAIN Redraws :
                Redraws[k][1] = "CR" /\ CountOf(Redraws[k], "NL") = 0
           /\ pc = "loop" => Len(Redraws) = Len(stdout)
           /\ pc \in {"done", "raised"}
                => /\ Len(stdout) = Len(Redraws) + 1
                   /\ Len(Redraws) >= 1
                   /\ stdout[Len(stdout)] = <<"NL">>
                   /\ ShownPct(Redraws[Len(Redraws)]) = <<"1", "0", "0">>

(***************************************************************************)
(* draw_buckets: the lines of the table                                    *)
(***************************************************************************)
\* the written lines that hold the glyph
LinesWith(glyph) == {k \in DOMAIN stdout : CountOf(stdout[k], glyph) > 0}

\* C17: for n >= 1 buckets the table is 2n + 1 lines: the top border, the n
\* rows in increasing index order with a separator after each row but the
\* last (n - 1 separators), and the bottom border.
C17_TableLines ==
    (BucketsCalled /\ Len(tbl.buckets) >= 1)
        => LET n == Len(tbl.buckets)
           IN  /\ Len(stdout) = 2 * n + 1
               /\ \A k \in DOMAIN stdout :
                     CountOf(stdout[k], "NL") = 1 /\ stdout[k][Len(stdout[k])] = "NL"
               /\ LinesWith(BOX_TL) = {1}
               /\ LinesWith(BOX_BL) = {2 * n + 1}
               /\ LinesWith(BOX_V) = {2 * i + 2 : i \in 0..(n - 1)}
               /\ \A i \in 0..(n - 1) :
                     Cell(BucketRowOut(i), 1) = Center(IntStr(i), idx_w)
               /\ LinesWith(BOX_LT) = {2 * i + 3 : i \in 0..(n - 2)}
               /\ Cardinality(LinesWith(BOX_LT)) = n - 1

\* A table of two buckets: five lines, one separator between the rows.
C17_Witness ==
    /\ BucketsCalled
    /\ Len(tbl.buckets) = 2
    /\ Len(stdout) = 5
    /\ LinesWith(BOX_LT) = {3}
    /\ LinesWith(BOX_V) = {2, 4}

\* the row of bucket i as it is drawn when the bucket holds items instead
RowDrawnWith(i, items) ==
    draw_buckets([tbl.buckets EXCEPT ![i + 1] = items], tbl.highlight_idx)[2 * i + 2]

HashCalled == pc = "done" /\ th # Idle

RECURSIVE CodeTotal(_, _)
\* the character codes of text added up character by character kind
CodeTotal(kinds, text) ==
    IF kinds = {} THEN 0
    ELSE LET c == CHOOSE x \in kinds : TRUE
         IN  Ord(c) * CountOf(text, c) + CodeTotal(kinds \ {c}, text)

\* every text made of the characters of text in some order
Reordered(text) ==
    LET n == Len(text)
        orders == {p \in [1..n -> 1..n] : \A i, j \in 1..n : p[i] = p[j] => i = j}
    IN  {[k \in 1..n |-> text[p[k]]] : p \in orders}

\* C19: for every text, the empty one too, and every n >= 1, toy_hash is the
\* sum of the character codes modulo n, lies in 0..n-1, and is the same for
\* every reordering of the characters of the text.
C19_ToyHashSumMod ==
    HashCalled
        => /\ th.result
                = CodeTotal({th.text[k] : k \in DOMAIN th.text}, th.text) % th.num_buckets
           /\ th.result \in 0..(th.num_buckets - 1)
           /\ \A t \in Reordered(th.text) : toy_hash(t, th.num_buckets) = th.result
           /\ th.text = <<>> => th.result = 0

\* toy_hash("Cat", 8): 67 + 97 + 116 = 280, and 280 % 8 = 0.
C19_Witness ==
    /\ HashCalled
    /\ th.text = <<"C", "a", "t">>
    /\ th.num_buckets = 8
    /\ th.result = 0
    /\ Cardinality(Reordered(th.text)) = 6

(***************************************************************************)
(* collisions.run                                                          *)
(***************************************************************************)
\* C20: with NUM_BUCKETS = 5 buckets the collision is found no later than
\* the 6th word: the loop never goes on after a 6th word, and when it ends
\* by a collision at most NUM_BUCKETS + 1 words have been entered.
C20_CollisionBySixthWord ==
    col # Idle
        => /\ col.found => col.attempts <= NUM_BUCKETS + 1
           /\ ~col.found => col.attempts <= NUM_BUCKETS
           /\ pc \in {"loop", "prompt"} => ~col.found

\* Five words filled the five buckets and the sixth collided.
C20_Witness ==
    /\ col # Idle
    /\ pc = "returned"
    /\ col.found
    /\ col.attempts = NUM_BUCKETS + 1
    /\ \E k \in 1..NUM_BUCKETS : Len(col.buckets[k]) = 2
    /\ \A k \in 1..NUM_BUCKETS : Len(col.buckets[k]) >= 1

(***************************************************************************)
(* avalanche.run: the colours of the source lines                          *)
(***************************************************************************)
\* raw positions of the visible characters of a written line, in order
VisibleIndices(write) ==
    LET covered == UNION { j..MatchEnd(write, j) :
                             j \in {x \in DOMAIN write : MatchEnd(write, x) > 0} }
    IN  SelectSeq(Indices(Len(write)), LAMBDA k : k \notin covered)

\* start of the colour code whose last character is at raw position e, or 0;
\* the codes of ui.py are at most 5 characters long
CodeEndingAt(write, e) ==
    IF write[e] # "m" THEN 0
    ELSE LET from == {j \in Maximum(1, e - 4)..e : MatchEnd(write, j) = e}
         IN  IF from = {} THEN 0 ELSE CHOOSE j \in from : TRUE

RECURSIVE StyleBefore(_, _)
\* the colour codes in force after raw position e: those written since the
\* last reset
StyleBefore(write, e) ==
    IF e < 1 THEN {}
    ELSE LET j == CodeEndingAt(write, e)
         IN  IF j = 0 THEN StyleBefore(write, e - 1)
             ELSE IF SubSeq(write, j, e) = C_RESET THEN {}
             ELSE {SubSeq(write, j, e)} \cup StyleBefore(write, j - 1)

\* the visible characters of a written line, each with the style it is
\* shown in
Styled(write) ==
    LET visible == VisibleIndices(write)
    IN  [n \in 1..Len(visible) |->
            [sym |-> write[visible[n]], style |-> StyleBefore(write, visible[n] - 1)]]

\* the styles of the n symbols a source line shows after `lead` columns,
\* the symbols coming in groups of `group` with one column between groups
SymbolStyles(write, lead, group, n) ==
    LET styled == Styled(write)
    IN  [k \in 1..n |-> styled[lead + k + (k - 1) \div group].style]

\* a mismatch in the accent colour in A and the alert colour in B, a match
\* dimmed in both
Recoloured(differ, style_a, style_b) ==
    IF differ THEN C_CYAN \in style_a /\ C_RED \in style_b
    ELSE C_DIM \in style_a /\ C_DIM \in style_b

\* C21 as stated: at every granularity each mismatched position has A's
\* symbol in the accent colour and B's in the alert colour, and each matched
\* position is dimmed in both source lines.
C21_RecolouredAtEveryGranularity ==
    AvAllShown
        => /\ LET in_a == SymbolStyles(stdout[1], 8, Overlap + 1, Overlap)
                  in_b == SymbolStyles(stdout[2], 8, Overlap + 1, Overlap)
              IN  \A k \in 1..Overlap :
                     Recoloured(av.in_a[k] # av.in_b[k], in_a[k], in_b[k])
           /\ LET h_a == SymbolStyles(stdout[4], 7, HEX_LEN, HEX_LEN)
                  h_b == SymbolStyles(stdout[5], 7, HEX_LEN, HEX_LEN)
              IN  \A k \in 1..HEX_LEN :
                     Recoloured(av.h_a[k] # av.h_b[k], h_a[k], h_b[k])
           /\ LET b_a == SymbolStyles(stdout[7], 7, 8, SHOW_BITS)
                  b_b == SymbolStyles(stdout[8], 7, 8, SHOW_BITS)
              IN  \A k \in 1..SHOW_BITS :
                     Recoloured(av.b_a[k] # av.b_b[k], b_a[k], b_b[k])

\* C21 amended: only the binary view recolours the source lines position by
\* position (a flipped bit bold in the accent colour in A and bold in the
\* alert colour in B, an equal bit dimmed in both); the input lines are bold
\* throughout and the hex lines in the accent colour throughout, whether a
\* position matches or not, and the mismatches show on the marker line only.
C21_RecolouredInBinaryViewOnly ==
    AvAllShown
        => /\ SymbolStyles(stdout[7], 7, 8, SHOW_BITS)
                = [k \in 1..SHOW_BITS |->
                      IF av.b_a[k] # av.b_b[k] THEN {C_CYAN, C_BOLD} ELSE {C_DIM}]
           /\ SymbolStyles(stdout[8], 7, 8, SHOW_BITS)
                = [k \in 1..SHOW_BITS |->
                      IF av.b_a[k] # av.b_b[k] THEN {C_RED, C_BOLD} ELSE {C_DIM}]
           /\ SymbolStyles(stdout[1], 8, Len(av.in_a), Len(av.in_a))
                = [k \in 1..Len(av.in_a) |-> {C_BOLD}]
           /\ SymbolStyles(stdout[2], 8, Len(av.in_b), Len(av.in_b))
                = [k \in 1..Len(av.in_b) |-> {C_BOLD}]
           /\ SymbolStyles(stdout[4], 7, HEX_LEN, HEX_LEN)
                = [k \in 1..HEX_LEN |-> {C_CYAN}]
           /\ SymbolStyles(stdout[5], 7, HEX_LEN, HEX_LEN)
                = [k \in 1..HEX_LEN |-> {C_CYAN}]

\* Inputs and digests that differ somewhere and agree somewhere, and a
\* binary view with flipped and equal bits: the first flipped bit is cyan
\* in A and red in B.
C21_Witness ==
    /\ AvAllShown
    /\ \E k \in 1..Overlap : av.in_a[k] # av.in_b[k]
    /\ \E k \in 1..Overlap : av.in_a[k] = av.in_b[k]
    /\ av.hex_diffs > 0 /\ av.hex_diffs < HEX_LEN
    /\ \E k \in 1..SHOW_BITS : av.b_a[k] = av.b_b[k]
    /\ \E k \in 1..SHOW_BITS : av.b_a[k] # av.b_b[k]
    /\ LET first == CHOOSE k \in 1..SHOW_BITS :
                       /\ av.b_a[k] # av.b_b[k]
                       /\ \A j \in 1..(k - 1) : av.b_a[j] = av.b_b[j]
       IN  /\ C_CYAN \in SymbolStyles(stdout[7], 7, 8, first)[first]
           /\ C_RED \in SymbolStyles(stdout[8], 7, 8, first)[first]

(***************************************************************************)
(* progress_bar: the cells of the bar                                      *)
(***************************************************************************)
\* C22: every redraw shows exactly bar_width cells, filled = floor(bar_width
\* * fraction) of them full, 0 <= filled <= bar_width, and the others empty;
\* from one redraw to the next the number of full cells never goes down;
\* and all cells are full only on the redraw whose fraction is 1.0, the one
\* the call returns after.
C22_ThirtyCells ==
    BarCalled
        => /\ \A k \in DOMAIN Redraws :
                 /\ CountOf(Redraws[k], BAR_FULL) + CountOf(Redraws[k], BAR_EMPTY)
                      = bar_width
                 /\ CountOf(Redraws[k], BAR_FULL) \in 0..bar_width
                 /\ k > 1 => CountOf(Redraws[k - 1], BAR_FULL)
                               <= CountOf(Redraws[k], BAR_FULL)
                 /\ CountOf(Redraws[k], BAR_FULL) = bar_width
                      => pc = "done" /\ k = Len(Redraws)
           /\ (Redraws # <<>> /\ bar.seconds > 0)
                => CountOf(Redraws[Len(Redraws)], BAR_FULL)
                     = ExpectedCells(bar.elapsed, bar.seconds)

(***************************************************************************)
(* _hex_to_bin                                                             *)
(***************************************************************************)
HexBinCalled == pc = "done" /\ hb # Idle

\* the number four binary digits stand for, high bit first
NibbleValue(bits) ==
    8 * (IF bits[1] = "1" THEN 1 ELSE 0) + 4 * (IF bits[2] = "1" THEN 1 ELSE 0)
    + 2 * (IF bits[3] = "1" THEN 1 ELSE 0) + (IF bits[4] = "1" THEN 1 ELSE 0)

\* the k-th group of four of a binary string
Nibble(bits, k) == SubSeq(bits, 4 * k - 3, 4 * k)

\* a binary string read back as hex, one digit per group of four
BinToHex(bits) ==
    [k \in 1..(Len(bits) \div 4) |-> HexDigits[NibbleValue(Nibble(bits, k)) + 1]]

\* C23: for a non-empty hex string h, _hex_to_bin(h) has exactly 4 * len(h)
\* characters, each "0" or "1"; its k-th group of four is the value of the
\* k-th hex digit, high bit first, so leading zero digits are kept; and
\* reading the result back as hex gives h.
C23_HexToBinNibbles ==
    HexBinCalled
        => /\ Len(hb.result) = 4 * Len(hb.hex_str)
           /\ \A i \in DOMAIN hb.result : hb.result[i] \in {"0", "1"}
           /\ \A k \in DOMAIN hb.hex_str :
                 NibbleValue(Nibble(hb.result, k)) = HexValue(hb.hex_str[k])
           /\ BinToHex(hb.result) = hb.hex_str

\* "0a": a leading zero digit, converted to 00001010.
C23_Witness ==
    /\ HexBinCalled
    /\ hb.hex_str = <<"0", "a">>
    /\ hb.result = <<"0", "0", "0", "0", "1", "0", "1", "0">>

(***************************************************************************)
(* rainbow.run                                                             *)
(***************************************************************************)
\* _build_rainbow_table has returned at least once since the program started
RbTableBuilt ==
    /\ rb # Idle
    /\ \/ pc \in {"attack", "defense"}
       \/ pc = "menu" /\ rb.runs >= 1
       \/ pc = "build" /\ rb.runs >= 2

PasswordSet == {COMMON_PASSWORDS[k] : k \in DOMAIN COMMON_PASSWORDS}

\* C24: after every call of _build_rainbow_table, the first and every later
\* one, and all through a later rebuild, the table maps exactly the hash of
\* each of the 25 common passwords to that password and nothing else; the
\* lookup of the attack finds the victim password exactly when it is one of
\* the 25, and then it finds that password.
C24_RainbowTableFixed ==
    /\ RbTableBuilt
         => /\ DOMAIN RAINBOW_TABLE = {Sha256(pw) : pw \in PasswordSet}
            /\ Cardinality(DOMAIN RAINBOW_TABLE) = 25
            /\ \A pw \in PasswordSet : RAINBOW_TABLE[Sha256(pw)] = pw
    /\ (rb # Idle /\ pc = "defense")
         => /\ (rb.result # None) <=> (rb.victim_pw \in PasswordSet)
            /\ rb.result # None => rb.result = Some(rb.victim_pw)
            /\ (CountOf(stdout[1], "!") > 0) <=> (rb.victim_pw \in PasswordSet)

\* The second run of the lesson: the table was rebuilt and "dragon" is found.
C24_Witness ==
    /\ rb # Idle
    /\ pc = "defense"
    /\ rb.runs = 2
    /\ rb.victim_pw = dragon
    /\ rb.result = Some(dragon)
    /\ Cardinality(DOMAIN RAINBOW_TABLE) = 25

(***************************************************************************)
(* collisions.run: the buckets                                             *)
(***************************************************************************)
RECURSIVE StoredWords(_, _)
\* the number of words in the first n buckets
StoredWords(buckets, n) ==
    IF n = 0 THEN 0 ELSE Len(buckets[n]) + StoredWords(buckets, n - 1)

\* the sum of the character codes of a word
CodeSum(word) == CodeTotal({word[k] : k \in DOMAIN word}, word)

\* the row of bucket i (0-based) in the last table drawn
FinalRow(i) == stdout[Len(stdout) - (2 * NUM_BUCKETS + 1) + 2 * i + 2]

C25_AtLoopStart ==
    (col # Idle /\ pc = "loop")
        => /\ ~col.found
           /\ \A k \in 1..NUM_BUCKETS : Len(col.buckets[k]) <= 1
           /\ col.attempts = StoredWords(col.buckets, NUM_BUCKETS)
           /\ \A k \in 1..NUM_BUCKETS : \A n \in DOMAIN col.buckets[k] :
                 CodeSum(col.buckets[k][n]) % NUM_BUCKETS = k - 1

C25_AtCollision ==
    (col # Idle /\ col.found)
        => /\ Cardinality({k \in 1..NUM_BUCKETS : Len(col.buckets[k]) = 2}) = 1
           /\ \A k \in 1..NUM_BUCKETS : Len(col.buckets[k]) <= 2
           /\ \A k \in 1..NUM_BUCKETS :
                 (IndexColorOut(FinalRow(k - 1)) # C_CYAN) <=> (Len(col.buckets[k]) = 2)

\* C25: at the start of every round of the challenge no collision has been
\* found, each bucket holds at most one word, attempts is the number of
\* words stored, and every word stored in bucket i has code sum mod 5 = i;
\* typing "q", "Q" or nothing at the prompt changes neither the buckets nor
\* attempts; and once a collision is found exactly one bucket holds two
\* words, and it is the row highlighted in the last table drawn.
C25_ChallengeBuckets ==
    /\ [](C25_AtLoopStart /\ C25_AtCollision)
    /\ [][(pc = "prompt" /\ col'.word \in {<<>>, <<"q">>, <<"Q">>})
             => (col'.buckets = col.buckets /\ col'.attempts = col.attempts)]_vars

\* Two words in bucket 0 and one elsewhere: the third word collided, and
\* row 0 of the last table is highlighted.
C25_Witness ==
    /\ col # Idle
    /\ pc = "returned"
    /\ col.found
    /\ col.attempts = 3
    /\ Len(col.buckets[1]) = 2
    /\ col.buckets[1][1] # col.buckets[1][2]
    /\ IndexColorOut(FinalRow(0)) = C_RED

(***************************************************************************)
(* toy_hash.run                                                            *)
(***************************************************************************)
C26_WordsInTheirBuckets ==
    toy # Idle
        => \A k \in 1..TOY_NUM_BUCKETS : \A n \in DOMAIN toy.buckets[k] :
              /\ CodeSum(toy.buckets[k][n]) % TOY_NUM_BUCKETS = k - 1
              /\ toy_hash(toy.buckets[k][n], TOY_NUM_BUCKETS) = k - 1

\* a step of the lesson other than starting it again from the menu
C26_LessonStep == toy # Idle /\ pc # "returned"

C26_AppendOnly ==
    C26_LessonStep
        => \/ toy'.buckets = toy.buckets
           \/ \E k \in 1..TOY_NUM_BUCKETS :
                 /\ toy'.buckets[k] = Append(toy.buckets[k], toy'.word)
                 /\ \A j \in 1..TOY_NUM_BUCKETS \ {k} : toy'.buckets[j] = toy.buckets[j]

C26_CollisionAnnounced ==
    (C26_LessonStep /\ pc = "prompt" /\ pc' = "pause")
        => /\ Len(stdout') = Len(stdout) + 1
           /\ (CountOf(stdout'[Len(stdout')], "!") > 0)
                 <=> (toy.buckets[toy'.idx[1] + 1] # <<>>)

C26_QuitChangesNothing ==
    (C26_LessonStep /\ pc = "prompt" /\ toy'.word \in {<<>>, <<"q">>, <<"Q">>})
        => toy'.buckets = toy.buckets

\* C26: in the toy hash lesson every word stored in bucket i has code sum
\* mod 8 = i, the index ui.toy_hash(w, 8) gives; a step of the lesson
\* changes the buckets only by appending the word just typed at the end of
\* one bucket; the collision heading is shown exactly when that bucket held
\* a word before the append; and typing "q", "Q" or nothing leaves the
\* buckets as they are.
C26_ToyLessonBuckets ==
    /\ []C26_WordsInTheirBuckets
    /\ [][C26_AppendOnly /\ C26_CollisionAnnounced /\ C26_QuitChangesNothing]_vars

\* "Cat" then "Act": the anagram joined bucket 0 behind "Cat" and the
\* collision heading was shown.
C26_Witness ==
    /\ toy # Idle
    /\ pc = "pause"
    /\ toy.buckets[1] = <<Cat, Act>>
    /\ toy.collision
    /\ CountOf(stdout[Len(stdout)], "!") > 0

=============================================================================
